---- MODULE Spec2Model ----
(***************************************************************************)
(* MoneyLog statement ingestion pipeline: fingerprinting, the three        *)
(* statement parsers (CSV, pdfjs PDF, pdf-parse PDF), the categorization   *)
(* engine and the import-confirm route, as state machines over the         *)
(* family database.                                                        *)
(*                                                                         *)
(* Text is a sequence of one-character strings.  A Thai character is       *)
(* written by its code point ("U0E04"); TAB is the string "\t".            *)
(***************************************************************************)
EXTENDS Integers, Sequences, FiniteSets, TLC

VARIABLES
    fpIn,        \* fingerprint harness: the two calls' arguments
    fpOut,       \* fingerprint harness: the two returned fingerprints
    doc,         \* parser harness: the uploaded document
    parseOut,    \* parser harness: the ParseResult of the last parse
    categories,  \* table Category
    rules,       \* table CategoryRule, in storage order
    clock,       \* database clock (createdAt values)
    catIn,       \* categorization harness: the last call's arguments
    catOut,      \* categorization harness: result of categorizeTransaction
    batchOut,    \* categorization harness: result of categorizeTransactions
    expenses,    \* table ExpenseTransaction
    batches,     \* table ImportBatch
    sessions,    \* client side: the preview (_parsedData) each user holds
    lastImport,  \* the last import-confirm request and its response
    prevImport,  \* the last successful import-confirm before lastImport
    families,    \* table Family, the family's id being its position
    memberships, \* table Membership
    requests     \* the requests in flight, each at one of its awaits

vars == <<fpIn, fpOut, doc, parseOut, categories, rules, clock, catIn, catOut,
          batchOut, expenses, batches, sessions, lastImport, prevImport,
          families, memberships, requests>>

\* The absent value (null / undefined); every optional value is a record.
None == [none |-> TRUE]

(***************************************************************************)
(* Characters and strings                                                  *)
(***************************************************************************)
UpperAlpha == <<"A","B","C","D","E","F","G","H","I","J","K","L","M",
                "N","O","P","Q","R","S","T","U","V","W","X","Y","Z">>

LowerAlpha == <<"a","b","c","d","e","f","g","h","i","j","k","l","m",
                "n","o","p","q","r","s","t","u","v","w","x","y","z">>

Digits == {"0","1","2","3","4","5","6","7","8","9"}

Range(s) == {s[i] : i \in DOMAIN s}

\* The Thai block U+0E00..U+0E7F.
ThaiChars ==
    {
     "U0E00","U0E01","U0E02","U0E03","U0E04","U0E05","U0E06","U0E07","U0E08","U0E09","U0E0A","U0E0B","U0E0C","U0E0D","U0E0E","U0E0F",
     "U0E10","U0E11","U0E12","U0E13","U0E14","U0E15","U0E16","U0E17","U0E18","U0E19","U0E1A","U0E1B","U0E1C","U0E1D","U0E1E","U0E1F",
     "U0E20","U0E21","U0E22","U0E23","U0E24","U0E25","U0E26","U0E27","U0E28","U0E29","U0E2A","U0E2B","U0E2C","U0E2D","U0E2E","U0E2F",
     "U0E30","U0E31","U0E32","U0E33","U0E34","U0E35","U0E36","U0E37","U0E38","U0E39","U0E3A","U0E3B","U0E3C","U0E3D","U0E3E","U0E3F",
     "U0E40","U0E41","U0E42","U0E43","U0E44","U0E45","U0E46","U0E47","U0E48","U0E49","U0E4A","U0E4B","U0E4C","U0E4D","U0E4E","U0E4F",
     "U0E50","U0E51","U0E52","U0E53","U0E54","U0E55","U0E56","U0E57","U0E58","U0E59","U0E5A","U0E5B","U0E5C","U0E5D","U0E5E","U0E5F",
     "U0E60","U0E61","U0E62","U0E63","U0E64","U0E65","U0E66","U0E67","U0E68","U0E69","U0E6A","U0E6B","U0E6C","U0E6D","U0E6E","U0E6F",
     "U0E70","U0E71","U0E72","U0E73","U0E74","U0E75","U0E76","U0E77","U0E78","U0E79","U0E7A","U0E7B","U0E7C","U0E7D","U0E7E","U0E7F"
    }

\* JavaScript \s, restricted to the white space the inputs use.
IsSpace(c) == c \in {" ", "\t"}

IndexOf(s, c) == IF c \in Range(s) THEN CHOOSE i \in DOMAIN s : s[i] = c ELSE 0

\* The case mappings of the ASCII letters, as tables.
LowerOf == [c \in Range(UpperAlpha) |-> LowerAlpha[IndexOf(UpperAlpha, c)]]

UpperOf == [c \in Range(LowerAlpha) |-> UpperAlpha[IndexOf(LowerAlpha, c)]]

toLowerCaseChar(c) == IF c \in DOMAIN LowerOf THEN LowerOf[c] ELSE c

toUpperCaseChar(c) == IF c \in DOMAIN UpperOf THEN UpperOf[c] ELSE c

toLowerCase(s) == [i \in DOMAIN s |-> toLowerCaseChar(s[i])]

toUpperCase(s) == [i \in DOMAIN s |-> toUpperCaseChar(s[i])]

\* String.prototype.includes / startsWith / endsWith
startsWithAt(s, p, i) ==
    /\ i + Len(p) - 1 <= Len(s)
    /\ \A k \in 1..Len(p) : s[i + k - 1] = p[k]

includes(s, p) == \E i \in 1..(Len(s) + 1) : startsWithAt(s, p, i)

startsWith(s, p) == startsWithAt(s, p, 1)

endsWith(s, p) == Len(p) <= Len(s) /\ startsWithAt(s, p, Len(s) - Len(p) + 1)

\* String.prototype.trim
RECURSIVE trimStart(_)
trimStart(s) ==
    IF s # <<>> /\ IsSpace(Head(s)) THEN trimStart(Tail(s)) ELSE s

RECURSIVE trimEnd(_)
trimEnd(s) ==
    IF s # <<>> /\ IsSpace(s[Len(s)]) THEN trimEnd(SubSeq(s, 1, Len(s) - 1)) ELSE s

trim(s) == trimEnd(trimStart(s))

\* s.replace(/\s+/g, ' ')
RECURSIVE collapseWhitespace(_)
collapseWhitespace(s) ==
    IF s = <<>> THEN <<>>
    ELSE IF IsSpace(Head(s))
         THEN <<" ">> \o collapseWhitespace(trimStart(s))
         ELSE <<Head(s)>> \o collapseWhitespace(Tail(s))

\* The class [\u0E00-\u0E7F a-z A-Z 0-9 \s]
KeptChars == ThaiChars \cup DOMAIN UpperOf \cup DOMAIN LowerOf \cup Digits

IsKeptChar(c) == c \in KeptChars \/ IsSpace(c)

\* s.replace(/[^\u0E00-\u0E7Fa-zA-Z0-9\s]/g, '')
stripPunctuation(s) == SelectSeq(s, IsKeptChar)

(***************************************************************************)
(* Fingerprint engine (lib/utils)                                          *)
(***************************************************************************)
normalizeDescription(description) ==
    stripPunctuation(trim(collapseWhitespace(toLowerCase(description))))

\* SHA-256 over `${iso}|${amount}|${channel}|${normalizedDescription}`: the
\* digest is taken collision-free, so it is represented by the data it hashes.
generateTransactionFingerprint(dateTime, amount, channel, description) ==
    [iso |-> dateTime, amount |-> amount, channel |-> channel,
     description |-> normalizeDescription(description)]

(***************************************************************************)
(* Dates: a Date is its local civil time, [day, sec]: the days since       *)
(* 1970-01-01 and the second of that day                                   *)
(***************************************************************************)
\* Days since 1970-01-01 of the civil date y-m-d, m in 1..12.
DaysFromCivil(y, m, d) ==
    LET yy  == IF m <= 2 THEN y - 1 ELSE y
        era == yy \div 400
        yoe == yy - era * 400
        mp  == (m + 9) % 12
        doy == (153 * mp + 2) \div 5 + d - 1
        doe == yoe * 365 + yoe \div 4 - yoe \div 100 + doy
    IN  era * 146097 + doe - 719468

\* new Date(year, monthIndex, day, hours, minutes, seconds): out-of-range
\* months and days roll over, years 0..99 mean 1900..1999.
NewDate(year, monthIndex, day, hours, minutes, seconds) ==
    LET full == IF year \in 0..99 THEN 1900 + year ELSE year
        y    == full + (monthIndex \div 12)
        m    == (monthIndex % 12) + 1
        days == DaysFromCivil(y, m, 1) + (day - 1)
        secs == (hours * 60 + minutes) * 60 + seconds
    IN  [day |-> days + (secs \div 86400), sec |-> secs % 86400]

\* a.getTime() - b.getTime() >= 0
notBefore(a, b) == a.day > b.day \/ (a.day = b.day /\ a.sec >= b.sec)

\* Date.prototype.getFullYear and getMonth() + 1
YearMonthOf(t) ==
    LET days == t.day
        z    == days + 719468
        era  == z \div 146097
        doe  == z - era * 146097
        yoe  == (doe - doe \div 1460 + doe \div 36524 - doe \div 146096) \div 365
        doy  == doe - (365 * yoe + yoe \div 4 - yoe \div 100)
        mp   == (5 * doy + 2) \div 153
        m    == IF mp < 10 THEN mp + 3 ELSE mp - 9
        y    == yoe + era * 400 + (IF m <= 2 THEN 1 ELSE 0)
    IN  [year |-> y, month |-> m]

(***************************************************************************)
(* Tokens of a statement row                                               *)
(*   date  [layout, day, month, year, yearDigits]  layout "D/M/Y", "D-M-Y" *)
(*         or "Y-M-D"; day and month are printed with two digits           *)
(*   time  [h, mi, s]   s = -1 when the token is HH:MM                     *)
(*   an amount is a number of satang, printed with two decimals            *)
(***************************************************************************)
NullDate == [ok |-> FALSE]

SomeDate(t) == [ok |-> TRUE, t |-> t]

\* if (year < 100) year = year > 50 ? 1900 + year : 2000 + year
TwoDigitYear(year) ==
    IF year < 100 THEN (IF year > 50 THEN 1900 + year ELSE 2000 + year) ELSE year

\* if (year > 2500) year = year - 543
BuddhistYear(year) == IF year > 2500 THEN year - 543 ELSE year

\* parseInt(timeParts[k]) || 0
HourOf(time) == IF time = None THEN 0 ELSE time.h

MinuteOf(time) == IF time = None THEN 0 ELSE time.mi

\* csv-parser parseDate(dateStr, timeStr)
parseDate(date, time) ==
    IF date.layout = "D/M/Y"
    THEN SomeDate(NewDate(BuddhistYear(TwoDigitYear(date.year)), date.month - 1,
                          date.day, HourOf(time), MinuteOf(time), 0))
    ELSE IF date.layout = "Y-M-D"
    THEN SomeDate(NewDate(BuddhistYear(date.year), date.month - 1, date.day,
                          HourOf(time), MinuteOf(time), 0))
    ELSE NullDate

(***************************************************************************)
(* Program tables (lib/constants)                                          *)
(***************************************************************************)
INFLOW_PATTERNS ==
    << <<"U0E22","U0E2D","U0E14","U0E22","U0E01","U0E21","U0E32">>,
       <<"U0E23","U0E31","U0E1A","U0E42","U0E2D","U0E19","U0E40","U0E07","U0E34","U0E19">>,
       <<"U0E23","U0E31","U0E1A","U0E1D","U0E32","U0E01">>,
       <<"U0E14","U0E2D","U0E01","U0E40","U0E1A","U0E35","U0E49","U0E22">>,
       <<"U0E04","U0E37","U0E19","U0E40","U0E07","U0E34","U0E19">>,
       <<"R","E","F","U","N","D">>,
       <<"U0E40","U0E07","U0E34","U0E19","U0E40","U0E02","U0E49","U0E32">> >>

ChATM == <<"A","T","M">>

ChKPLUS == <<"K"," ","P","L","U","S">>

ItemTypeExpense == <<"U0E23","U0E32","U0E22","U0E08","U0E48","U0E32","U0E22">>

ChSCBEasy == <<"S","C","B"," ","E","a","s","y">>

\* INFLOW_PATTERNS.some(p => text.toLowerCase().includes(p.toLowerCase()))
hasInflowPattern(text) ==
    \E k \in DOMAIN INFLOW_PATTERNS :
        includes(toLowerCase(text), toLowerCase(INFLOW_PATTERNS[k]))

(***************************************************************************)
(* CSV parser (lib/parser/csv-parser)                                      *)
(*   a row is its fields after parseCsvLine: [n, date, time, itemType,     *)
(*   channel, withdrawal, deposit, description], n the number of fields;   *)
(*   an empty date or time field is None, an empty amount field is 0       *)
(***************************************************************************)
NullRow == [ok |-> FALSE]

\* parseAmount: Math.abs(parseFloat(cleaned)), NaN -> 0
parseAmount(a) == IF a < 0 THEN -a ELSE a

OrDefault(s, dflt) == IF s = <<>> THEN dflt ELSE s

amountAndFlow(dateTime, itemType, channel, description, withdrawal, deposit) ==
    LET isInflow == deposit > 0 /\ withdrawal = 0
        amount   == IF withdrawal > 0 THEN withdrawal ELSE deposit
    IN  IF amount <= 0 THEN NullRow
        ELSE [ok |-> TRUE, dateTime |-> dateTime, amount |-> amount,
              itemType |-> itemType, channel |-> channel,
              description |-> description, isInflow |-> isInflow]

parseKBankCsvRow(row) ==
    IF row.n < 4 THEN NullRow
    ELSE IF row.date = None \/ row.time = None THEN NullRow
    ELSE LET dt == parseDate(row.date, row.time) IN
         IF ~dt.ok THEN NullRow
         ELSE IF row.n >= 8
         THEN amountAndFlow(dt.t, OrDefault(trim(row.itemType), ItemTypeExpense),
                            OrDefault(trim(row.channel), ChKPLUS),
                            trim(row.description),
                            parseAmount(row.withdrawal), parseAmount(row.deposit))
         ELSE IF row.n >= 6
         THEN amountAndFlow(dt.t, ItemTypeExpense, ChKPLUS, trim(row.description),
                            parseAmount(row.withdrawal), parseAmount(row.deposit))
         ELSE amountAndFlow(dt.t, ItemTypeExpense, ChKPLUS, trim(row.description),
                            parseAmount(row.withdrawal), 0)

parseSCBCsvRow(row) ==
    IF row.n < 4 THEN NullRow
    ELSE IF row.date = None THEN NullRow
    ELSE LET dt == parseDate(row.date, row.time) IN
         IF ~dt.ok THEN NullRow
         ELSE amountAndFlow(dt.t, ItemTypeExpense, ChSCBEasy, trim(row.description),
                            parseAmount(row.withdrawal),
                            IF row.n >= 5 THEN parseAmount(row.deposit) ELSE 0)

\* transactions.sort((a, b) => b.dateTime.getTime() - a.dateTime.getTime()):
\* Array.prototype.sort is stable.
RECURSIVE insertByDateDesc(_, _)
insertByDateDesc(sorted, tx) ==
    IF sorted = <<>> THEN <<tx>>
    ELSE IF notBefore(Head(sorted).dateTime, tx.dateTime)
         THEN <<Head(sorted)>> \o insertByDateDesc(Tail(sorted), tx)
         ELSE <<tx>> \o sorted

RECURSIVE sortByDateDesc(_)
sortByDateDesc(txs) ==
    IF txs = <<>> THEN <<>>
    ELSE insertByDateDesc(sortByDateDesc(SubSeq(txs, 1, Len(txs) - 1)), txs[Len(txs)])

\* detectStatementMonth: the first-seen month among those with the highest count
monthCount(dates, ym) == Cardinality({i \in DOMAIN dates : YearMonthOf(dates[i]) = ym})

detectStatementMonth(dates) ==
    IF dates = <<>> THEN None
    ELSE LET best == CHOOSE i \in DOMAIN dates :
                        /\ \A j \in DOMAIN dates :
                              monthCount(dates, YearMonthOf(dates[j]))
                                  <= monthCount(dates, YearMonthOf(dates[i]))
                        /\ \A j \in 1..(i - 1) :
                              monthCount(dates, YearMonthOf(dates[j]))
                                  < monthCount(dates, YearMonthOf(dates[i]))
         IN  YearMonthOf(dates[best])

datesOf(txs) == [i \in DOMAIN txs |-> txs[i].dateTime]

FailResult(error) ==
    [success |-> FALSE, transactions |-> <<>>, statementMonth |-> None,
     error |-> error, rawRowCount |-> 0, filteredOutCount |-> 0]

\* Mutation of csvRowStep: a row is counted in rawRowCount only when it
\* is not filtered out.
csvRowStepUncounted(acc, row, bank) ==
    LET parsed == IF bank = "kbank" THEN parseKBankCsvRow(row) ELSE parseSCBCsvRow(row)
    IN  IF ~parsed.ok THEN [acc EXCEPT !.rawRowCount = @ + 1]
        ELSE IF hasInflowPattern(parsed.description) \/ parsed.isInflow
        THEN [acc EXCEPT !.filteredOutCount = @ + 1]
        ELSE [acc EXCEPT !.rawRowCount = @ + 1,
                         !.transactions = Append(@,
                 [dateTime |-> parsed.dateTime, amount |-> parsed.amount,
                  itemType |-> parsed.itemType, channel |-> parsed.channel,
                  descriptionRaw |-> parsed.description,
                  fingerprint |-> generateTransactionFingerprint(
                      parsed.dateTime, parsed.amount, parsed.channel,
                      parsed.description)])]

\* The body of the row loop of parseCsvStatement for one row.
csvRowStep(acc, row, bank) ==
    LET parsed == IF bank = "kbank" THEN parseKBankCsvRow(row) ELSE parseSCBCsvRow(row)
        counted == [acc EXCEPT !.rawRowCount = @ + 1]
    IN  IF ~parsed.ok THEN counted
        ELSE IF hasInflowPattern(parsed.description) \/ parsed.isInflow
        THEN [counted EXCEPT !.filteredOutCount = @ + 1]
        ELSE [counted EXCEPT !.transactions = Append(@,
                 [dateTime |-> parsed.dateTime, amount |-> parsed.amount,
                  itemType |-> parsed.itemType, channel |-> parsed.channel,
                  descriptionRaw |-> parsed.description,
                  fingerprint |-> generateTransactionFingerprint(
                      parsed.dateTime, parsed.amount, parsed.channel,
                      parsed.description)])]

RECURSIVE csvRowLoop(_, _, _)
csvRowLoop(acc, rows, bank) ==
    IF rows = <<>> THEN acc
    ELSE csvRowLoop(csvRowStep(acc, Head(rows), bank), Tail(rows), bank)

\* parseCsvStatement(fileContent, bank): lines are the non-blank lines of the
\* file; the first one is skipped as the header.
parseCsvStatement(lines, bank) ==
    IF Len(lines) < 2
    THEN FailResult("CSV file appears to be empty or invalid")
    ELSE LET acc == csvRowLoop([transactions |-> <<>>, rawRowCount |-> 0,
                                filteredOutCount |-> 0], Tail(lines), bank)
         IN  [success |-> TRUE,
              transactions |-> sortByDateDesc(acc.transactions),
              statementMonth |-> detectStatementMonth(datesOf(acc.transactions)),
              error |-> "",
              rawRowCount |-> acc.rawRowCount,
              filteredOutCount |-> acc.filteredOutCount]

(***************************************************************************)
(* PDF statement text                                                      *)
(*   a line is [date, time, amounts, text]: an optional date token, an     *)
(*   optional time token, the amounts printed on it and the free text that *)
(*   follows; the free text holds no date, time or amount token            *)
(***************************************************************************)
DigitChars == <<"0","1","2","3","4","5","6","7","8","9">>

RECURSIVE natChars(_)
natChars(n) ==
    IF n < 10 THEN <<DigitChars[n + 1]>>
    ELSE natChars(n \div 10) \o <<DigitChars[(n % 10) + 1]>>

twoDigits(n) == <<DigitChars[((n \div 10) % 10) + 1], DigitChars[(n % 10) + 1]>>

yearChars(date) == IF date.yearDigits = 2 THEN twoDigits(date.year) ELSE natChars(date.year)

dateChars(date) ==
    IF date.layout = "D/M/Y"
    THEN twoDigits(date.day) \o <<"/">> \o twoDigits(date.month) \o <<"/">> \o yearChars(date)
    ELSE IF date.layout = "D-M-Y"
    THEN twoDigits(date.day) \o <<"-">> \o twoDigits(date.month) \o <<"-">> \o yearChars(date)
    ELSE natChars(date.year) \o <<"-">> \o twoDigits(date.month) \o <<"-">> \o twoDigits(date.day)

timeChars(time) ==
    twoDigits(time.h) \o <<":">> \o twoDigits(time.mi)
        \o (IF time.s >= 0 THEN <<":">> \o twoDigits(time.s) ELSE <<>>)

amountChars(a) == natChars(a \div 100) \o <<".">> \o twoDigits(a % 100)

RECURSIVE amountsChars(_)
amountsChars(amounts) ==
    IF amounts = <<>> THEN <<>>
    ELSE amountChars(Head(amounts)) \o <<" ">> \o amountsChars(Tail(amounts))

\* The line as the extractor prints it.
lineText(line) ==
    trim((IF line.date = None THEN <<>> ELSE dateChars(line.date) \o <<" ">>)
         \o (IF line.time = None THEN <<>> ELSE timeChars(line.time) \o <<" ">>)
         \o amountsChars(line.amounts) \o line.text)

RECURSIVE linesLength(_)
linesLength(lines) ==
    IF lines = <<>> THEN 0 ELSE Len(lineText(Head(lines))) + 1 + linesLength(Tail(lines))

\* text.trim().length of the extracted text: the statement's heading lines
\* (header.len characters, no date, time or amount in them) and its rows.
textLength(header, lines) == header.len + linesLength(lines)

substring(s, n) == IF Len(s) > n THEN SubSeq(s, 1, n) ELSE s

includesCI(s, p) == includes(toLowerCase(s), toLowerCase(p))

\* table lookup: the name of the first entry one of whose patterns is found
RECURSIVE firstEntry(_, _, _, _)
firstEntry(table, s, caseInsensitive, dflt) ==
    IF table = <<>> THEN dflt
    ELSE IF \E k \in DOMAIN Head(table).patterns :
               IF caseInsensitive THEN includesCI(s, Head(table).patterns[k])
               ELSE includes(s, Head(table).patterns[k])
         THEN Head(table).name
         ELSE firstEntry(Tail(table), s, caseInsensitive, dflt)

(***************************************************************************)
(* pdfjs PDF parser (lib/parser, pdfjs-dist variant)                       *)
(***************************************************************************)
\* /K\s*PLUS/i
matchesKPlus(s) ==
    \E i \in DOMAIN s : \E j \in (i + 1)..(Len(s) + 1) :
        /\ toUpperCaseChar(s[i]) = "K"
        /\ \A k \in (i + 1)..(j - 1) : IsSpace(s[k])
        /\ startsWithAt(toUpperCase(s), <<"P","L","U","S">>, j)

PdfjsChannels ==
    << [patterns |-> <<<<"K","+">>, <<"K","P","L","U","S">>>>, name |-> <<"K"," ","P","L","U","S">>],
       [patterns |-> <<<<"K","-","A","p","p">>>>, name |-> <<"K","-","A","p","p">>],
       [patterns |-> <<<<"A","T","M">>>>, name |-> <<"A","T","M">>],
       [patterns |-> <<<<"E","D","C">>, <<"U0E40","U0E04","U0E23","U0E37","U0E48","U0E2D","U0E07","U0E23","U0E39","U0E14">>>>, name |-> <<"E","D","C">>],
       [patterns |-> <<<<"I","n","t","e","r","n","e","t">>, <<"O","n","l","i","n","e">>>>, name |-> <<"I","n","t","e","r","n","e","t"," ","B","a","n","k","i","n","g">>],
       [patterns |-> <<<<"C","o","u","n","t","e","r">>, <<"U0E40","U0E04","U0E32","U0E19","U0E4C","U0E40","U0E15","U0E2D","U0E23","U0E4C">>>>, name |-> <<"C","o","u","n","t","e","r">>],
       [patterns |-> <<<<"M","o","b","i","l","e">>>>, name |-> <<"M","o","b","i","l","e"," ","B","a","n","k","i","n","g">>] >>

PdfjsItemTypes ==
    << [patterns |-> <<<<"U0E42","U0E2D","U0E19">>, <<"T","r","a","n","s","f","e","r">>>>, name |-> <<"U0E42","U0E2D","U0E19","U0E40","U0E07","U0E34","U0E19">>],
       [patterns |-> <<<<"U0E0A","U0E33","U0E23","U0E30">>, <<"P","a","y","m","e","n","t">>, <<"P","a","y">>>>, name |-> <<"U0E0A","U0E33","U0E23","U0E30","U0E40","U0E07","U0E34","U0E19">>],
       [patterns |-> <<<<"U0E16","U0E2D","U0E19">>, <<"W","i","t","h","d","r","a","w">>>>, name |-> <<"U0E16","U0E2D","U0E19","U0E40","U0E07","U0E34","U0E19">>],
       [patterns |-> <<<<"U0E0B","U0E37","U0E49","U0E2D">>, <<"P","u","r","c","h","a","s","e">>>>, name |-> <<"U0E0B","U0E37","U0E49","U0E2D","U0E2A","U0E34","U0E19","U0E04","U0E49","U0E32">>],
       [patterns |-> <<<<"U0E08","U0E48","U0E32","U0E22">>>>, name |-> <<"U0E08","U0E48","U0E32","U0E22","U0E40","U0E07","U0E34","U0E19">>],
       [patterns |-> <<<<"Q","R">>>>, name |-> <<"Q","R"," ","P","a","y","m","e","n","t">>],
       [patterns |-> <<<<"P","r","o","m","p","t","P","a","y">>, <<"U0E1E","U0E23","U0E49","U0E2D","U0E21","U0E40","U0E1E","U0E22","U0E4C">>>>, name |-> <<"P","r","o","m","p","t","P","a","y">>] >>

ChOther == <<"O","t","h","e","r">>

parseTransactionDetails(rest) ==
    [itemType |-> firstEntry(PdfjsItemTypes, rest, TRUE, ItemTypeExpense),
     channel |-> IF matchesKPlus(rest) THEN ChKPLUS
                 ELSE firstEntry(PdfjsChannels, rest, TRUE, ChOther),
     description |-> trim(substring(rest, 200))]

\* parseTransactionDate(dateStr, timeStr): dateStr.split('/') must give three
\* parts; timeStr.split throws without a time token, and the catch returns null
parseTransactionDate(date, time) ==
    IF date.layout # "D/M/Y" \/ time = None THEN NullDate
    ELSE SomeDate(NewDate(BuddhistYear(TwoDigitYear(date.year)), date.month - 1,
                          date.day, time.h, time.mi, 0))

\* match[4]: what follows the first amount on the line
restOf(line) == trim(amountsChars(Tail(line.amounts)) \o line.text)

\* transactionPattern: DD/MM/YY(YY), blank, HH:MM, blank, amount, blank, rest
matchesTransactionPattern(line) ==
    /\ line.date # None /\ line.date.layout = "D/M/Y"
    /\ line.time # None /\ line.time.s < 0
    /\ line.amounts # <<>>
    /\ restOf(line) # <<>>

\* The body of the line loop of parseTransactions for one line.
pdfjsLineStep(acc, line) ==
    IF ~matchesTransactionPattern(line) THEN acc
    ELSE LET counted == [acc EXCEPT !.rawRowCount = @ + 1]
             rest    == restOf(line)
             amount  == line.amounts[1]
             dt      == parseTransactionDate(line.date, line.time)
             det     == parseTransactionDetails(rest)
         IN  IF hasInflowPattern(rest)
             THEN [counted EXCEPT !.filteredOutCount = @ + 1]
             ELSE IF ~dt.ok THEN counted
             ELSE [counted EXCEPT !.transactions = Append(@,
                      [dateTime |-> dt.t, amount |-> amount,
                       itemType |-> det.itemType, channel |-> det.channel,
                       descriptionRaw |-> det.description,
                       fingerprint |-> generateTransactionFingerprint(
                           dt.t, amount, det.channel, det.description)])]

RECURSIVE pdfjsLineLoop(_, _)
pdfjsLineLoop(acc, lines) ==
    IF lines = <<>> THEN acc
    ELSE pdfjsLineLoop(pdfjsLineStep(acc, Head(lines)), Tail(lines))

parseTransactions(lines) ==
    LET acc == pdfjsLineLoop([transactions |-> <<>>, rawRowCount |-> 0,
                              filteredOutCount |-> 0], lines)
    IN  [acc EXCEPT !.transactions = sortByDateDesc(@)]

\* extractStatementMonth(text): a month name next to a 4-digit year in the
\* heading, else a date range DD/MM/YYYY - DD/MM/YYYY in it; header.month is
\* None or [lang, month, year], header.range is None or the [month, year] of
\* the first date of the range
extractStatementMonth(header) ==
    IF header.month # None
    THEN IF header.month.lang = "th"
         THEN [year |-> BuddhistYear(header.month.year), month |-> header.month.month]
         ELSE [year |-> header.month.year, month |-> header.month.month]
    ELSE IF header.range # None
    THEN [year |-> BuddhistYear(header.range.year), month |-> header.range.month]
    ELSE None

\* parseKBankStatement of the pdfjs variant, text extraction having succeeded
parseKBankStatementPdfjs(header, lines) ==
    IF textLength(header, lines) < 50
    THEN FailResult("Could not extract text from PDF. Make sure it's a text-based statement from K PLUS.")
    ELSE LET r == parseTransactions(lines)
         IN  [success |-> TRUE, transactions |-> r.transactions,
              statementMonth |-> extractStatementMonth(header),
              error |-> "", rawRowCount |-> r.rawRowCount,
              filteredOutCount |-> r.filteredOutCount]

(***************************************************************************)
(* pdf-parse PDF parser (lib/parser/kbank-parser)                          *)
(***************************************************************************)
\* utils parseThaiDate(dateStr, timeStr); throwing is NullDate
parseThaiDate(date, time) ==
    IF date.yearDigits = 4
    THEN SomeDate(NewDate(IF date.year > 2400 THEN date.year - 543 ELSE date.year,
                          date.month - 1, date.day,
                          IF time = None THEN 0 ELSE time.h,
                          IF time = None THEN 0 ELSE time.mi,
                          IF time = None \/ time.s < 0 THEN 0 ELSE time.s))
    ELSE NullDate

skipPatterns ==
    << <<"U0E22","U0E2D","U0E14","U0E22","U0E01","U0E21","U0E32">>, <<"U0E22","U0E2D","U0E14","U0E22","U0E01","U0E44","U0E1B">>, <<"S","t","a","t","e","m","e","n","t">>, <<"P","a","g","e">>, <<"U0E23","U0E32","U0E22","U0E01","U0E32","U0E23","U0E40","U0E14","U0E34","U0E19","U0E1A","U0E31","U0E0D","U0E0A","U0E35">>,
       <<"A","c","c","o","u","n","t"," ","S","t","a","t","e","m","e","n","t">>, <<"U0E40","U0E25","U0E02","U0E17","U0E35","U0E48","U0E1A","U0E31","U0E0D","U0E0A","U0E35">>, <<"A","c","c","o","u","n","t"," ","N","o">>, <<"U0E0A","U0E37","U0E48","U0E2D","U0E1A","U0E31","U0E0D","U0E0A","U0E35">>,
       <<"A","c","c","o","u","n","t"," ","N","a","m","e">>, <<"U0E2A","U0E32","U0E02","U0E32">>, <<"B","r","a","n","c","h">>, <<"U0E27","U0E31","U0E19","U0E17","U0E35","U0E48">>, <<"D","a","t","e">>, <<"U0E23","U0E32","U0E22","U0E01","U0E32","U0E23">>,
       <<"D","e","s","c","r","i","p","t","i","o","n">>, <<"U0E08","U0E33","U0E19","U0E27","U0E19","U0E40","U0E07","U0E34","U0E19">>, <<"A","m","o","u","n","t">>, <<"U0E04","U0E07","U0E40","U0E2B","U0E25","U0E37","U0E2D">>, <<"B","a","l","a","n","c","e">> >>

isHeaderOrBalanceRow(line) ==
    \E k \in DOMAIN skipPatterns :
        includes(lineText(line), skipPatterns[k]) /\ Len(lineText(line)) < 100

isInflowRow(line) ==
    \E k \in DOMAIN INFLOW_PATTERNS :
        \/ includes(lineText(line), toUpperCase(INFLOW_PATTERNS[k]))
        \/ includes(lineText(line), INFLOW_PATTERNS[k])

isExpenseTransaction(line, transaction) ==
    LET s == lineText(line) IN
    IF includes(s, <<"U0E23","U0E31","U0E1A">>) /\ ~includes(s, <<"U0E23","U0E31","U0E1A","U0E0A","U0E33","U0E23","U0E30">>) THEN FALSE
    ELSE IF includes(s, <<"U0E1D","U0E32","U0E01">>) /\ ~includes(s, <<"U0E1D","U0E32","U0E01","U0E1B","U0E23","U0E30","U0E08","U0E33">>) THEN FALSE
    ELSE IF includes(s, <<"U0E04","U0E37","U0E19","U0E40","U0E07","U0E34","U0E19">>) \/ includes(s, <<"R","E","F","U","N","D">>) THEN FALSE
    ELSE IF includes(s, <<"U0E14","U0E2D","U0E01","U0E40","U0E1A","U0E35","U0E49","U0E22">>) THEN FALSE
    ELSE transaction.amount > 0

KBankChannels ==
    << [patterns |-> <<<<"K"," ","P","L","U","S">>, <<"K","P","L","U","S">>>>, name |-> <<"K"," ","P","L","U","S">>],
       [patterns |-> <<<<"E","D","C">>, <<"K"," ","S","H","O","P">>>>, name |-> <<"E","D","C","/","K"," ","S","H","O","P">>],
       [patterns |-> <<<<"D","I","R","E","C","T"," ","D","E","B","I","T">>>>, name |-> <<"O","n","l","i","n","e"," ","D","i","r","e","c","t"," ","D","e","b","i","t">>],
       [patterns |-> <<<<"I","N","T","E","R","N","E","T">>, <<"M","O","B","I","L","E">>>>, name |-> <<"I","n","t","e","r","n","e","t","/","M","o","b","i","l","e">>],
       [patterns |-> <<<<"A","T","M">>>>, name |-> <<"A","T","M">>],
       [patterns |-> <<<<"C","O","U","N","T","E","R">>, <<"B","R","A","N","C","H">>>>, name |-> <<"C","o","u","n","t","e","r">>] >>

KBankItemTypes ==
    << [patterns |-> <<<<"U0E42","U0E2D","U0E19","U0E40","U0E07","U0E34","U0E19">>, <<"U0E42","U0E2D","U0E19">>>>, name |-> <<"U0E42","U0E2D","U0E19","U0E40","U0E07","U0E34","U0E19">>],
       [patterns |-> <<<<"U0E0A","U0E33","U0E23","U0E30","U0E40","U0E07","U0E34","U0E19">>, <<"U0E0A","U0E33","U0E23","U0E30">>>>, name |-> <<"U0E0A","U0E33","U0E23","U0E30","U0E40","U0E07","U0E34","U0E19">>],
       [patterns |-> <<<<"U0E2B","U0E31","U0E01","U0E1A","U0E31","U0E0D","U0E0A","U0E35">>>>, name |-> <<"U0E2B","U0E31","U0E01","U0E1A","U0E31","U0E0D","U0E0A","U0E35">>],
       [patterns |-> <<<<"U0E16","U0E2D","U0E19","U0E40","U0E07","U0E34","U0E19">>, <<"U0E16","U0E2D","U0E19">>>>, name |-> <<"U0E16","U0E2D","U0E19","U0E40","U0E07","U0E34","U0E19">>],
       [patterns |-> <<<<"U0E0B","U0E37","U0E49","U0E2D","U0E2A","U0E34","U0E19","U0E04","U0E49","U0E32">>, <<"U0E0B","U0E37","U0E49","U0E2D">>>>, name |-> <<"U0E0B","U0E37","U0E49","U0E2D","U0E2A","U0E34","U0E19","U0E04","U0E49","U0E32">>],
       [patterns |-> <<<<"U0E08","U0E48","U0E32","U0E22","U0E1A","U0E34","U0E25">>, <<"U0E08","U0E48","U0E32","U0E22">>>>, name |-> <<"U0E08","U0E48","U0E32","U0E22","U0E1A","U0E34","U0E25">>] >>

extractChannelAndType(line) ==
    LET upperLine == toUpperCase(lineText(line))
        found     == firstEntry(KBankChannels, upperLine, FALSE, <<>>)
    IN  [channel |-> IF found # <<>> THEN found
                     ELSE IF includes(upperLine, <<"A","U","T","O">>) /\ includes(upperLine, <<"D","E","B","I","T">>)
                     THEN <<"A","u","t","o"," ","D","e","b","i","t">>
                     ELSE ChOther,
         itemType |-> firstEntry(KBankItemTypes, lineText(line), FALSE, ChOther)]

\* datePattern /(\d{1,2}[\/-]\d{1,2}[\/-]\d{4})/ finds the line's date token
matchesDatePattern(line) ==
    /\ line.date # None
    /\ line.date.layout \in {"D/M/Y", "D-M-Y"}
    /\ line.date.yearDigits = 4

\* cleanDescription(line): matched dates, times and amounts are removed
cleanDescription(line) ==
    LET kept == (IF line.date # None /\ ~matchesDatePattern(line)
                 THEN dateChars(line.date) \o <<" ">> ELSE <<>>) \o line.text
        d    == substring(trim(collapseWhitespace(trim(kept))), 500)
    IN  IF d = <<>> THEN <<"N","o"," ","d","e","s","c","r","i","p","t","i","o","n">> ELSE d

\* amounts.push(amount) for every printed amount > 0
positiveAmounts(amounts) == SelectSeq(amounts, LAMBDA a : a > 0)

NullTransaction == [ok |-> FALSE]

parseTransactionLine(line, currentDate, currentTime) ==
    LET lineDate == IF matchesDatePattern(line) THEN line.date ELSE currentDate
        lineTime == IF line.time # None THEN line.time ELSE currentTime
        amounts  == positiveAmounts(line.amounts)
    IN  IF lineDate = None THEN NullTransaction
        ELSE IF amounts = <<>> THEN NullTransaction
        ELSE IF amounts[1] < 100 THEN NullTransaction
        ELSE LET dt == parseThaiDate(lineDate, lineTime)
                 ct == extractChannelAndType(line)
                 description == cleanDescription(line)
             IN  IF ~dt.ok THEN NullTransaction
                 ELSE [ok |-> TRUE,
                       tx |-> [dateTime |-> dt.t, amount |-> amounts[1],
                               itemType |-> ct.itemType, channel |-> ct.channel,
                               descriptionRaw |-> description,
                               fingerprint |-> generateTransactionFingerprint(
                                   dt.t, amounts[1], ct.channel, description)]]

\* The body of the line loop of parseStatementText for one line.
kbankLineStep(acc, line) ==
    IF isHeaderOrBalanceRow(line) THEN acc
    ELSE IF isInflowRow(line) THEN acc
    ELSE LET currentDate == IF matchesDatePattern(line) THEN line.date ELSE acc.currentDate
             currentTime == IF line.time # None THEN line.time ELSE acc.currentTime
             parsed      == parseTransactionLine(line, currentDate, currentTime)
         IN  [transactions |->
                  IF parsed.ok /\ isExpenseTransaction(line, parsed.tx)
                  THEN Append(acc.transactions, parsed.tx)
                  ELSE acc.transactions,
              currentDate |-> currentDate,
              currentTime |-> currentTime]

RECURSIVE kbankLineLoop(_, _)
kbankLineLoop(acc, lines) ==
    IF lines = <<>> THEN acc
    ELSE kbankLineLoop(kbankLineStep(acc, Head(lines)), Tail(lines))

parseStatementText(lines) ==
    kbankLineLoop([transactions |-> <<>>, currentDate |-> None,
                   currentTime |-> None], lines).transactions

\* parseKBankStatement of the pdf-parse variant, text extraction having succeeded
parseKBankStatement(header, lines) ==
    IF textLength(header, lines) < 100
    THEN FailResult("Could not extract text from PDF. This may be a scanned/image-based document.")
    ELSE LET transactions == parseStatementText(lines)
         IN  IF transactions = <<>>
             THEN FailResult("No expense transactions found in this statement. Please ensure this is a KBank monthly statement.")
             ELSE [success |-> TRUE, transactions |-> transactions,
                   statementMonth |-> detectStatementMonth(datesOf(transactions)),
                   error |-> "", rawRowCount |-> Len(transactions),
                   filteredOutCount |-> 0]

(***************************************************************************)
(* Fingerprint harness: two calls that share timestamp, amount and channel *)
(***************************************************************************)
MaxDescLen == 3

FpAlphabet == {"a", "A", " ", "-"}

Texts(alphabet, n) == UNION {[1..k -> alphabet] : k \in 0..n}

SampleTimes == {NewDate(2024, 0, 1, 0, 0, 0), NewDate(2024, 0, 1, 0, 1, 0)}

SampleAmounts == {100, 250}

FpIdle == fpIn = None /\ fpOut = None

ParseIdle == doc = None /\ parseOut = None

CatIdle ==
    /\ categories = <<>> /\ rules = <<>> /\ clock = 0
    /\ catIn = None /\ catOut = None /\ batchOut = None

ImportIdle ==
    /\ expenses = <<>> /\ batches = <<>> /\ sessions = None
    /\ lastImport = None /\ prevImport = None

FamilyIdle == families = <<>> /\ memberships = {} /\ requests = <<>>

fpVars == <<fpIn, fpOut>>

parseVars == <<doc, parseOut>>

catVars == <<categories, rules, clock, catIn, catOut, batchOut>>

importVars == <<expenses, batches, sessions, lastImport, prevImport>>

familyVars == <<families, memberships, requests>>

FpInit ==
    /\ fpIn \in [dateTime : SampleTimes, amount : SampleAmounts,
                  channel : {ChATM, ChKPLUS},
                  d1 : Texts(FpAlphabet, MaxDescLen),
                  d2 : Texts(FpAlphabet, MaxDescLen)]
    /\ fpOut = None
    /\ ParseIdle /\ CatIdle /\ ImportIdle /\ FamilyIdle

Fingerprint ==
    /\ fpIn # None /\ fpOut = None
    /\ fpOut' = [f1 |-> generateTransactionFingerprint(
                            fpIn.dateTime, fpIn.amount, fpIn.channel, fpIn.d1),
                 f2 |-> generateTransactionFingerprint(
                            fpIn.dateTime, fpIn.amount, fpIn.channel, fpIn.d2)]
    /\ UNCHANGED <<fpIn, parseVars, catVars, importVars, familyVars>>

FpNext == Fingerprint

SpecFp == FpInit /\ [][FpNext]_vars

\* Descriptions that differ only in letter case.
DifferInCase(a, b) == Len(a) = Len(b) /\ toLowerCase(a) = toLowerCase(b)

\* Descriptions that differ only in the length of their whitespace runs.
DifferInWhitespaceRuns(a, b) == collapseWhitespace(a) = collapseWhitespace(b)

\* Descriptions that differ only in punctuation characters.
DifferInPunctuation(a, b) == stripPunctuation(a) = stripPunctuation(b)

\* C1: two descriptions that differ only in letter case, in the length of
\* whitespace runs, or in punctuation get the same fingerprint (same
\* timestamp, amount and channel).
C1_SameFingerprint ==
    (fpOut # None /\ (\/ DifferInCase(fpIn.d1, fpIn.d2)
                      \/ DifferInWhitespaceRuns(fpIn.d1, fpIn.d2)
                      \/ DifferInPunctuation(fpIn.d1, fpIn.d2)))
        => fpOut.f1 = fpOut.f2

(***************************************************************************)
(* Parser harness: one uploaded document, parsed by the path of its kind   *)
(***************************************************************************)
MaxRows == 2

SeqsUpTo(S, n) == UNION {[1..k -> S] : k \in 0..n}

Date1 == [layout |-> "D/M/Y", day |-> 1, month |-> 12, year |-> 2567, yearDigits |-> 4]

Date2 == [layout |-> "D/M/Y", day |-> 15, month |-> 12, year |-> 2567, yearDigits |-> 4]

Time1 == [h |-> 10, mi |-> 30, s |-> -1]

TxtCoffee == <<"C","o","f","f","e","e">>

TxtREFUND == <<"R","E","F","U","N","D">>

TxtRefund == <<"R","e","f","u","n","d"," ","s","h","o","p">>

TxtThaiRefund == <<"U0E04","U0E37","U0E19","U0E40","U0E07","U0E34","U0E19">>

SampleTexts == {TxtCoffee, TxtREFUND, TxtRefund, TxtThaiRefund}

CsvHeaderLine == [n |-> 6, header |-> TRUE]

\* Date, Time, Description, Withdrawal, Deposit, Balance
SampleCsvRows ==
    {[n |-> 6, date |-> d, time |-> Time1, itemType |-> <<>>, channel |-> <<>>,
      withdrawal |-> a[1], deposit |-> a[2], description |-> t] :
        d \in {Date1, Date2}, a \in {<<15000, 0>>, <<0, 50000>>, <<0, 0>>, <<9900, 0>>},
        t \in SampleTexts}

SamplePdfLines ==
    {[date |-> d, time |-> t, amounts |-> a, text |-> x] :
        d \in {Date1, Date2, None}, t \in {Time1, None},
        a \in {<<15000, 100000>>, <<9900>>}, x \in SampleTexts}

DateShort24 == [layout |-> "D/M/Y", day |-> 15, month |-> 12, year |-> 24, yearDigits |-> 2]

DateShort67 == [layout |-> "D/M/Y", day |-> 15, month |-> 12, year |-> 67, yearDigits |-> 2]

\* "rap": a word that is no inflow phrase
TxtRap == <<"U0E23","U0E31","U0E1A">>

\* Rows with a two-digit year, without a time, without a description.
ExtraCsvRows ==
    {[n |-> 6, date |-> x[1], time |-> x[2], itemType |-> <<>>, channel |-> <<>>,
      withdrawal |-> 15000, deposit |-> 0, description |-> x[3]] :
        x \in {<<DateShort24, Time1, TxtCoffee>>, <<DateShort67, Time1, TxtCoffee>>,
               <<Date1, None, TxtCoffee>>, <<Date1, Time1, <<>>>>}}

\* Lines with a two-digit year, with a zero amount, without free text, with
\* the word "rap".
ExtraPdfLines ==
    {[date |-> x[1], time |-> Time1, amounts |-> x[2], text |-> x[3]] :
        x \in {<<DateShort24, <<9900>>, TxtCoffee>>, <<DateShort67, <<9900>>, TxtCoffee>>,
               <<Date1, <<0>>, TxtCoffee>>, <<Date1, <<9900>>, <<>>>>,
               <<Date1, <<9900>>, TxtRap>>}}

\* The statement's heading: its length in characters, the month it names and
\* the date range it prints.
SampleHeaders ==
    {[len |-> 0, month |-> None, range |-> None],
     [len |-> 200, month |-> None, range |-> None]}

MonthHeaders ==
    {[len |-> 200, month |-> [lang |-> "th", month |-> 12, year |-> 2567], range |-> None],
     [len |-> 200, month |-> [lang |-> "en", month |-> 11, year |-> 2024], range |-> None],
     [len |-> 200, month |-> None, range |-> [month |-> 12, year |-> 2567]]}

PlainPdfLines ==
    {[date |-> d, time |-> Time1, amounts |-> <<9900>>, text |-> TxtCoffee] :
        d \in {Date1, Date2}}

SampleDocs ==
    {[kind |-> "csv", bank |-> b, lines |-> <<CsvHeaderLine>> \o rows] :
        b \in {"kbank", "scb"},
        rows \in SeqsUpTo(SampleCsvRows \cup ExtraCsvRows, MaxRows)}
    \cup
    {[kind |-> "pdf", header |-> h, lines |-> ls] :
        h \in SampleHeaders,
        ls \in SeqsUpTo(SamplePdfLines \cup ExtraPdfLines, MaxRows)}
    \cup
    {[kind |-> "pdf", header |-> h, lines |-> ls] :
        h \in MonthHeaders, ls \in SeqsUpTo(PlainPdfLines, MaxRows)}

ParseInit ==
    /\ doc \in SampleDocs
    /\ parseOut = None
    /\ FpIdle /\ CatIdle /\ ImportIdle /\ FamilyIdle

ParseCsv ==
    /\ parseOut = None /\ doc.kind = "csv"
    /\ parseOut' = [path |-> "csv", result |-> parseCsvStatement(doc.lines, doc.bank)]
    /\ UNCHANGED <<doc, fpVars, catVars, importVars, familyVars>>

ParsePdfjs ==
    /\ parseOut = None /\ doc.kind = "pdf"
    /\ parseOut' = [path |-> "pdfjs",
                    result |-> parseKBankStatementPdfjs(doc.header, doc.lines)]
    /\ UNCHANGED <<doc, fpVars, catVars, importVars, familyVars>>

ParsePdfParse ==
    /\ parseOut = None /\ doc.kind = "pdf"
    /\ parseOut' = [path |-> "pdf-parse",
                    result |-> parseKBankStatement(doc.header, doc.lines)]
    /\ UNCHANGED <<doc, fpVars, catVars, importVars, familyVars>>

ParseNext == ParseCsv \/ ParsePdfjs \/ ParsePdfParse

SpecParse == ParseInit /\ [][ParseNext]_vars

\* The data rows of the document (the CSV header line is not one).
dataRows(d) == IF d.kind = "csv" THEN Tail(d.lines) ELSE d.lines

\* The free text of a data row.
freeText(d, row) == IF d.kind = "csv" THEN row.description ELSE row.text

\* C3: no transaction of a returned result carries an inflow phrase
\* (compared case-insensitively) in its free text, in any parse path.
C3_NoInflowInTransactions ==
    parseOut # None =>
        \A i \in DOMAIN parseOut.result.transactions :
            ~hasInflowPattern(parseOut.result.transactions[i].descriptionRaw)

\* C4: on a successful parse every input row whose description contains an
\* inflow phrase has been counted in filteredOutCount, in every parse path
\* (rows that are rejected for their amount or date included).
C4_FilteredOutCountsInflowRows ==
    (parseOut # None /\ parseOut.result.success) =>
        parseOut.result.filteredOutCount >=
            Cardinality({i \in DOMAIN dataRows(doc) :
                            hasInflowPattern(freeText(doc, dataRows(doc)[i]))})

\* C5: the transactions of every successful result are sorted by dateTime,
\* newest first, in every parse path.
C5_SortedNewestFirst ==
    (parseOut # None /\ parseOut.result.success) =>
        \A i \in 1..(Len(parseOut.result.transactions) - 1) :
            notBefore(parseOut.result.transactions[i].dateTime,
                      parseOut.result.transactions[i + 1].dateTime)

rowOrders(s) ==
    {[i \in DOMAIN s |-> s[f[i]]] : f \in {g \in [DOMAIN s -> DOMAIN s] :
                                            \A a, b \in DOMAIN s : g[a] = g[b] => a = b}}

\* The parse path of the last parse, run on other lines.
parseBy(path, d, lines) ==
    IF path = "csv" THEN parseCsvStatement(<<CsvHeaderLine>> \o lines, d.bank)
    ELSE IF path = "pdfjs" THEN parseKBankStatementPdfjs(d.header, lines)
    ELSE parseKBankStatement(d.header, lines)

\* C6: every permutation of the data rows yields the same transactions list,
\* element by element.
C6_SameListForEveryRowOrder ==
    parseOut # None =>
        \A p \in rowOrders(dataRows(doc)) :
            parseBy(parseOut.path, doc, p).transactions = parseOut.result.transactions

(***************************************************************************)
(* Categorization engine (lib/categorization)                              *)
(***************************************************************************)
MatchType == {"CONTAINS", "STARTS_WITH", "ENDS_WITH", "EXACT", "REGEX"}

\* Category names that carry built-in keywords, in declaration order.
CHANNEL_CATEGORY_HINTS == <<
    [name |-> <<"U0E1A","U0E34","U0E25","U0E1A","U0E49","U0E32","U0E19","(","U0E44","U0E1F","/","U0E19","U0E49","U0E33","/","U0E40","U0E19","U0E47","U0E15","/","U0E42","U0E17","U0E23",")">>,
     keywords |-> <<<<"M","E","A">>,
                   <<"P","E","A">>,
                   <<"M","W","A">>,
                   <<"P","W","A">>,
                   <<"T","O","T">>,
                   <<"T","R","U","E">>,
                   <<"A","I","S">>,
                   <<"D","T","A","C">>,
                   <<"3","B","B">>,
                   <<"N","T">>>>],
    [name |-> <<"U0E2A","U0E21","U0E31","U0E04","U0E23","U0E2A","U0E21","U0E32","U0E0A","U0E34","U0E01","/","U0E15","U0E31","U0E14","U0E2D","U0E31","U0E15","U0E42","U0E19","U0E21","U0E31","U0E15","U0E34">>,
     keywords |-> <<<<"N","E","T","F","L","I","X">>,
                   <<"S","P","O","T","I","F","Y">>,
                   <<"Y","O","U","T","U","B","E">>,
                   <<"A","P","P","L","E">>,
                   <<"G","O","O","G","L","E">>,
                   <<"I","C","L","O","U","D">>,
                   <<"G","R","A","B">>>>],
    [name |-> <<"U0E1C","U0E48","U0E2D","U0E19","/","U0E1A","U0E31","U0E15","U0E23","U0E40","U0E04","U0E23","U0E14","U0E34","U0E15","/","U0E2B","U0E19","U0E35","U0E49">>,
     keywords |-> <<<<"P","A","Y","M","E","N","T">>,
                   <<"L","O","A","N">>,
                   <<"C","R","E","D","I","T"," ","C","A","R","D">>,
                   <<"U0E1A","U0E31","U0E15","U0E23","U0E40","U0E04","U0E23","U0E14","U0E34","U0E15">>,
                   <<"U0E1C","U0E48","U0E2D","U0E19">>>>],
    [name |-> <<"U0E2D","U0E32","U0E2B","U0E32","U0E23","/","U0E40","U0E04","U0E23","U0E37","U0E48","U0E2D","U0E07","U0E14","U0E37","U0E48","U0E21">>,
     keywords |-> <<<<"G","R","A","B"," ","F","O","O","D">>,
                   <<"F","O","O","D","P","A","N","D","A">>,
                   <<"L","I","N","E","M","A","N">>,
                   <<"S","H","O","P","E","E"," ","F","O","O","D">>,
                   <<"S","T","A","R","B","U","C","K","S">>,
                   <<"M","K">>,
                   <<"P","I","Z","Z","A">>>>],
    [name |-> <<"U0E40","U0E14","U0E34","U0E19","U0E17","U0E32","U0E07","/","U0E19","U0E49","U0E33","U0E21","U0E31","U0E19","/","U0E23","U0E16">>,
     keywords |-> <<<<"P","T","T">>,
                   <<"S","H","E","L","L">>,
                   <<"E","S","S","O">>,
                   <<"B","A","N","G","C","H","A","K">>,
                   <<"B","O","L","T">>,
                   <<"G","R","A","B">>,
                   <<"U0E1B","U0E31","U0E4A","U0E21">>>>],
    [name |-> <<"U0E0A","U0E49","U0E2D","U0E1B","U0E1B","U0E34","U0E49","U0E07">>,
     keywords |-> <<<<"S","H","O","P","E","E">>,
                   <<"L","A","Z","A","D","A">>,
                   <<"C","E","N","T","R","A","L">>,
                   <<"B","I","G"," ","C">>,
                   <<"T","E","S","C","O">>,
                   <<"L","O","T","U","S">>,
                   <<"7","-","E","L","E","V","E","N">>,
                   <<"M","A","K","R","O">>>>],
    [name |-> <<"U0E2A","U0E38","U0E02","U0E20","U0E32","U0E1E">>,
     keywords |-> <<<<"H","O","S","P","I","T","A","L">>,
                   <<"C","L","I","N","I","C">>,
                   <<"P","H","A","R","M","A","C","Y">>,
                   <<"U0E23","U0E49","U0E32","U0E19","U0E22","U0E32">>,
                   <<"U0E42","U0E23","U0E07","U0E1E","U0E22","U0E32","U0E1A","U0E32","U0E25">>>>] >>

\* The categories every new family is given, by sortOrder.
DEFAULT_CATEGORIES == <<
    <<"U0E2D","U0E32","U0E2B","U0E32","U0E23","/","U0E40","U0E04","U0E23","U0E37","U0E48","U0E2D","U0E07","U0E14","U0E37","U0E48","U0E21">>,
    <<"U0E40","U0E14","U0E34","U0E19","U0E17","U0E32","U0E07","/","U0E19","U0E49","U0E33","U0E21","U0E31","U0E19","/","U0E23","U0E16">>,
    <<"U0E1A","U0E34","U0E25","U0E1A","U0E49","U0E32","U0E19","(","U0E44","U0E1F","/","U0E19","U0E49","U0E33","/","U0E40","U0E19","U0E47","U0E15","/","U0E42","U0E17","U0E23",")">>,
    <<"U0E1C","U0E48","U0E2D","U0E19","/","U0E1A","U0E31","U0E15","U0E23","U0E40","U0E04","U0E23","U0E14","U0E34","U0E15","/","U0E2B","U0E19","U0E35","U0E49">>,
    <<"U0E2A","U0E31","U0E15","U0E27","U0E4C","U0E40","U0E25","U0E35","U0E49","U0E22","U0E07">>,
    <<"U0E40","U0E25","U0E35","U0E49","U0E22","U0E07","U0E14","U0E39","U0E1A","U0E38","U0E15","U0E23">>,
    <<"U0E0A","U0E49","U0E2D","U0E1B","U0E1B","U0E34","U0E49","U0E07">>,
    <<"U0E2A","U0E38","U0E02","U0E20","U0E32","U0E1E">>,
    <<"U0E42","U0E2D","U0E19","U0E43","U0E2B","U0E49","U0E04","U0E19","/","U0E04","U0E23","U0E2D","U0E1A","U0E04","U0E23","U0E31","U0E27">>,
    <<"U0E2A","U0E21","U0E31","U0E04","U0E23","U0E2A","U0E21","U0E32","U0E0A","U0E34","U0E01","/","U0E15","U0E31","U0E14","U0E2D","U0E31","U0E15","U0E42","U0E19","U0E21","U0E31","U0E15","U0E34">>,
    <<"U0E2D","U0E37","U0E48","U0E19","U0E46","/","U0E22","U0E31","U0E07","U0E44","U0E21","U0E48","U0E23","U0E39","U0E49","U0E2B","U0E21","U0E27","U0E14">> >>

Max(a, b) == IF a >= b THEN a ELSE b

Min(a, b) == IF a <= b THEN a ELSE b

\* The row of table Category with this id (include: {category: true}).
categoryOf(cats, id) == cats[CHOOSE i \in DOMAIN cats : cats[i].id = id]

\* where: {familyId, enabled: true}, rows in the order the store holds them
RECURSIVE whereEnabled(_, _)
whereEnabled(table, familyId) ==
    IF table = <<>> THEN <<>>
    ELSE IF Head(table).familyId = familyId /\ Head(table).enabled
         THEN <<Head(table)>> \o whereEnabled(Tail(table), familyId)
         ELSE whereEnabled(Tail(table), familyId)

\* Mutation of orderByPriorityDesc: lowest priority first.
RECURSIVE orderByPriorityAsc(_)
orderByPriorityAsc(rows) ==
    IF rows = <<>> THEN <<>>
    ELSE LET rest == orderByPriorityAsc(Tail(rows))
             k == Cardinality({i \in DOMAIN rest : rest[i].priority < Head(rows).priority})
         IN  SubSeq(rest, 1, k) \o <<Head(rows)>> \o SubSeq(rest, k + 1, Len(rest))

\* orderBy: {priority: 'desc'}: rows of equal priority stay in the order the
\* store holds them; no second sort key is given.
RECURSIVE orderByPriorityDesc(_)
orderByPriorityDesc(rows) ==
    IF rows = <<>> THEN <<>>
    ELSE LET rest == orderByPriorityDesc(Tail(rows))
             k == Cardinality({i \in DOMAIN rest : rest[i].priority > Head(rows).priority})
         IN  SubSeq(rest, 1, k) \o <<Head(rows)>> \o SubSeq(rest, k + 1, Len(rest))

\* prisma.categoryRule.findMany of matchUserRules and categorizeTransactions
findManyRules(table, familyId) == orderByPriorityDesc(whereEnabled(table, familyId))

\* prisma.category.findMany({where: {familyId, active: true}})
RECURSIVE findManyCategories(_, _)
findManyCategories(cats, familyId) ==
    IF cats = <<>> THEN <<>>
    ELSE IF Head(cats).familyId = familyId /\ Head(cats).active
         THEN <<Head(cats)>> \o findManyCategories(Tail(cats), familyId)
         ELSE findManyCategories(Tail(cats), familyId)

\* new Map(categories.map(c => [c.name, c])).get(name): a later row of the
\* same name replaces an earlier one.
RECURSIVE categoryMapGet(_, _)
categoryMapGet(found, name) ==
    IF found = <<>> THEN None
    ELSE IF found[Len(found)].name = name THEN found[Len(found)]
    ELSE categoryMapGet(SubSeq(found, 1, Len(found) - 1), name)

\* Characters with a meaning of their own in a regular expression.
RegexMeta == {"(", ")", "[", "]", "{", "}", "*", "+", "?", ".", "^", "$", "|", "\\"}

\* new RegExp(pattern, 'i').test(text) inside try/catch.  A pattern of literal
\* characters is a case-insensitive search; a pattern with an unterminated
\* group, "(", makes the constructor throw, and the catch sets false.  The
\* sampled patterns hold no other metacharacter.
regexTest(pattern, text) ==
    IF \A i \in DOMAIN pattern : pattern[i] \notin RegexMeta
    THEN includes(toLowerCase(text), toLowerCase(pattern))
    ELSE FALSE

\* `${prefix}: "${quoted}"`
matchedRuleText(prefix, quoted) == [prefix |-> prefix, quoted |-> quoted]

NoMatch == [categoryId |-> None, categoryName |-> None, matchedBy |-> "NONE",
            matchedRule |-> None]

\* Mutation of matchUserRules: the rule stage finds nothing.
noUserRules(table, cats, familyId, description, channel) == None

\* The loop of matchUserRules over the rules found, first match returns.
RECURSIVE matchUserRulesLoop(_, _, _, _)
matchUserRulesLoop(found, cats, normalizedDesc, normalizedChannel) ==
    IF found = <<>> THEN None
    ELSE LET rule == Head(found)
             pattern == toLowerCase(rule.pattern)
             matched ==
                 CASE rule.matchType = "CONTAINS" -> includes(normalizedDesc, pattern)
                   [] rule.matchType = "STARTS_WITH" -> startsWith(normalizedDesc, pattern)
                   [] rule.matchType = "ENDS_WITH" -> endsWith(normalizedDesc, pattern)
                   [] rule.matchType = "EXACT" -> normalizedDesc = pattern
                   [] rule.matchType = "REGEX" -> regexTest(pattern, normalizedDesc)
                   [] OTHER -> FALSE
         IN  IF rule.channel # None
                /\ ~includes(normalizedChannel, toLowerCase(rule.channel.value))
             THEN matchUserRulesLoop(Tail(found), cats, normalizedDesc, normalizedChannel)
             ELSE IF matched
             THEN [categoryId |-> categoryOf(cats, rule.categoryId).id,
                   categoryName |-> categoryOf(cats, rule.categoryId).name,
                   matchedBy |-> "RULE",
                   matchedRule |-> matchedRuleText(rule.matchType, rule.pattern)]
             ELSE matchUserRulesLoop(Tail(found), cats, normalizedDesc, normalizedChannel)

matchUserRules(table, cats, familyId, description, channel) ==
    matchUserRulesLoop(findManyRules(table, familyId), cats,
                       toLowerCase(normalizeDescription(description)),
                       toLowerCase(channel))

\* Mutation of matchBuiltInHints: the hint stage finds nothing.
noBuiltInHints(cats, familyId, description) == None

\* for (const keyword of keywords): the first keyword found, or None
RECURSIVE firstKeyword(_, _)
firstKeyword(keywords, text) ==
    IF keywords = <<>> THEN None
    ELSE IF includes(text, toUpperCase(Head(keywords))) THEN [keyword |-> Head(keywords)]
    ELSE firstKeyword(Tail(keywords), text)

\* Mutation of matchBuiltInHintsLoop: the table is gone through from its last
\* entry to its first.
RECURSIVE hintLoopLastFirst(_, _, _)
hintLoopLastFirst(entries, found, normalizedDesc) ==
    IF entries = <<>> THEN None
    ELSE LET last == entries[Len(entries)]
             category == categoryMapGet(found, last.name)
             hit == firstKeyword(last.keywords, normalizedDesc)
         IN  IF category # None /\ hit # None
             THEN [categoryId |-> category.id, categoryName |-> category.name,
                   matchedBy |-> "HINT",
                   matchedRule |-> matchedRuleText("keyword", hit.keyword)]
             ELSE hintLoopLastFirst(SubSeq(entries, 1, Len(entries) - 1), found,
                                    normalizedDesc)

\* The loop of matchBuiltInHints over Object.entries(CHANNEL_CATEGORY_HINTS).
RECURSIVE matchBuiltInHintsLoop(_, _, _)
matchBuiltInHintsLoop(entries, found, normalizedDesc) ==
    IF entries = <<>> THEN None
    ELSE LET category == categoryMapGet(found, Head(entries).name)
             hit == firstKeyword(Head(entries).keywords, normalizedDesc)
         IN  IF category = None
             THEN matchBuiltInHintsLoop(Tail(entries), found, normalizedDesc)
             ELSE IF hit # None
             THEN [categoryId |-> category.id, categoryName |-> category.name,
                   matchedBy |-> "HINT",
                   matchedRule |-> matchedRuleText("keyword", hit.keyword)]
             ELSE matchBuiltInHintsLoop(Tail(entries), found, normalizedDesc)

matchBuiltInHints(cats, familyId, description) ==
    matchBuiltInHintsLoop(CHANNEL_CATEGORY_HINTS, findManyCategories(cats, familyId),
                          toUpperCase(normalizeDescription(description)))

\* categorizeTransaction: rules, then hints, then none.  itemType is unused.
categorizeTransaction(table, cats, familyId, description, channel, itemType) ==
    LET ruleMatch == matchUserRules(table, cats, familyId, description, channel)
        hintMatch == matchBuiltInHints(cats, familyId, description)
    IN  IF ruleMatch # None THEN ruleMatch
        ELSE IF hintMatch # None THEN hintMatch
        ELSE NoMatch

\* categorizeTransactions, step 1 for one transaction: the loop over the rules
\* that were read once for the whole batch.
RECURSIVE batchRuleLoop(_, _, _, _)
batchRuleLoop(found, cats, normalizedDesc, normalizedChannel) ==
    IF found = <<>> THEN None
    ELSE LET rule == Head(found)
             pattern == toLowerCase(rule.pattern)
             patternMatched ==
                 CASE rule.matchType = "CONTAINS" -> includes(normalizedDesc, pattern)
                   [] rule.matchType = "STARTS_WITH" -> startsWith(normalizedDesc, pattern)
                   [] rule.matchType = "ENDS_WITH" -> endsWith(normalizedDesc, pattern)
                   [] rule.matchType = "EXACT" -> normalizedDesc = pattern
                   [] rule.matchType = "REGEX" -> regexTest(pattern, normalizedDesc)
                   [] OTHER -> FALSE
         IN  IF rule.channel # None
                /\ ~includes(normalizedChannel, toLowerCase(rule.channel.value))
             THEN batchRuleLoop(Tail(found), cats, normalizedDesc, normalizedChannel)
             ELSE IF patternMatched
             THEN [categoryId |-> categoryOf(cats, rule.categoryId).id,
                   categoryName |-> categoryOf(cats, rule.categoryId).name,
                   matchedBy |-> "RULE",
                   matchedRule |-> matchedRuleText(rule.matchType, rule.pattern)]
             ELSE batchRuleLoop(Tail(found), cats, normalizedDesc, normalizedChannel)

\* categorizeTransactions, step 2 for one transaction: the loop over the hints.
RECURSIVE batchHintLoop(_, _, _)
batchHintLoop(entries, found, upperDesc) ==
    IF entries = <<>> THEN None
    ELSE LET category == categoryMapGet(found, Head(entries).name)
             hit == firstKeyword(Head(entries).keywords, upperDesc)
         IN  IF category = None THEN batchHintLoop(Tail(entries), found, upperDesc)
             ELSE IF hit # None
             THEN [categoryId |-> category.id, categoryName |-> category.name,
                   matchedBy |-> "HINT",
                   matchedRule |-> matchedRuleText("keyword", hit.keyword)]
             ELSE batchHintLoop(Tail(entries), found, upperDesc)

\* categorizeTransactions: results.get(i) for every index of the batch.
categorizeTransactions(table, cats, familyId, transactions) ==
    LET found == findManyRules(table, familyId)
        active == findManyCategories(cats, familyId)
    IN  [i \in DOMAIN transactions |->
            LET tx == transactions[i]
                normalizedDesc == toLowerCase(normalizeDescription(tx.description))
                normalizedChannel == toLowerCase(tx.channel)
                byRule == batchRuleLoop(found, cats, normalizedDesc, normalizedChannel)
                byHint == batchHintLoop(CHANNEL_CATEGORY_HINTS, active,
                                        toUpperCase(normalizedDesc))
            IN  IF byRule # None THEN byRule
                ELSE IF byHint # None THEN byHint
                ELSE NoMatch]

(***************************************************************************)
(* Categorization harness: two families, their rules, and calls of the     *)
(* single and the batch form on the tables as they stand                   *)
(***************************************************************************)
MaxRules == 2

MaxBatch == 2

Families == {"F1", "F2"}

\* The id of the category a family is given with this sortOrder.
CategoryId(f, k) == [family |-> f, sortOrder |-> k]

\* Category rows of a family as created with the family.
DefaultCategoriesOf(f) ==
    [k \in DOMAIN DEFAULT_CATEGORIES |->
        [id |-> CategoryId(f, k), familyId |-> f, name |-> DEFAULT_CATEGORIES[k], active |-> TRUE]]

DefaultCategories == DefaultCategoriesOf("F1") \o DefaultCategoriesOf("F2")

\* Request bodies of POST /api/rules.
SampleRuleCategoryIds == {CategoryId("F1", 10), CategoryId("F1", 11), CategoryId("F2", 10)}

SampleRulePatterns == {[pattern |-> <<"G","r","a","b"," ">>, matchType |-> "CONTAINS"]}

SampleRuleChannels == {None, [value |-> <<"k"," ","p","l","u","s"," ">>]}

SamplePriorities == {-5, 150}

SampleTransactions ==
    {[description |-> <<"G","r","a","b"," ","F","o","o","d">>, channel |-> <<"K"," ","P","L","U","S">>, itemType |-> <<"O","t","h","e","r">>],
     [description |-> <<"G","r","a","b"," ","F","o","o","d">>, channel |-> <<"A","T","M">>, itemType |-> <<"O","t","h","e","r">>],
     [description |-> <<"C","o","f","f","e","e">>, channel |-> <<"A","T","M">>, itemType |-> <<"O","t","h","e","r">>]}

CatInit ==
    /\ categories = DefaultCategories
    /\ rules = <<>>
    /\ clock = 0
    /\ catIn = None /\ catOut = None /\ batchOut = None
    /\ FpIdle /\ ParseIdle /\ ImportIdle /\ FamilyIdle

insertAt(s, pos, e) == SubSeq(s, 1, pos - 1) \o <<e>> \o SubSeq(s, pos, Len(s))

removeAt(s, pos) == SubSeq(s, 1, pos - 1) \o SubSeq(s, pos + 1, Len(s))

\* channel?.trim() || null
trimOrNull(channel) ==
    IF channel = None \/ trim(channel.value) = <<>> THEN None
    ELSE [value |-> trim(channel.value)]

\* POST /api/rules by a member of family f.  The store does not fix where
\* the new row stands among the rows already there.  MaxRules bounds the
\* number of rules ever created.
CreateRule(f, categoryId, pattern, matchType, channel, priority) ==
    /\ clock < MaxRules
    /\ trim(pattern) # <<>>
    /\ \E i \in DOMAIN categories :
          categories[i].id = categoryId /\ categories[i].familyId = f
    /\ matchType \in MatchType
    /\ \E pos \in 1..(Len(rules) + 1) :
          rules' = insertAt(rules, pos,
                      [id |-> clock + 1, familyId |-> f, categoryId |-> categoryId,
                       pattern |-> trim(pattern), matchType |-> matchType,
                       channel |-> trimOrNull(channel),
                       priority |-> Max(0, Min(100, priority)),
                       enabled |-> TRUE, createdAt |-> clock + 1])
    /\ clock' = clock + 1
    /\ catIn' = None /\ catOut' = None /\ batchOut' = None
    /\ UNCHANGED <<categories, fpVars, parseVars, importVars, familyVars>>

\* PUT /api/rules by a member of family f: the fields present in the body.
UpdateRule(f, id, priority, enabled) ==
    /\ \E i \in DOMAIN rules :
          /\ rules[i].id = id /\ rules[i].familyId = f
          /\ rules' = [rules EXCEPT
                ![i].priority = IF priority = None THEN @
                                ELSE Max(0, Min(100, priority.value)),
                ![i].enabled = IF enabled = None THEN @ ELSE enabled.value]
    /\ catIn' = None /\ catOut' = None /\ batchOut' = None
    /\ UNCHANGED <<categories, clock, fpVars, parseVars, importVars, familyVars>>

\* DELETE /api/rules?id= by a member of family f.
DeleteRule(f, id) ==
    /\ \E i \in DOMAIN rules :
          /\ rules[i].id = id /\ rules[i].familyId = f
          /\ rules' = removeAt(rules, i)
    /\ catIn' = None /\ catOut' = None /\ batchOut' = None
    /\ UNCHANGED <<categories, clock, fpVars, parseVars, importVars, familyVars>>

\* DELETE /api/categories?id= by a member of family f: a soft delete.
DeleteCategory(f, id) ==
    /\ \E i \in DOMAIN categories :
          /\ categories[i].id = id /\ categories[i].familyId = f
          /\ categories[i].active
          /\ categories' = [categories EXCEPT ![i].active = FALSE]
    /\ catIn' = None /\ catOut' = None /\ batchOut' = None
    /\ UNCHANGED <<rules, clock, fpVars, parseVars, importVars, familyVars>>

\* A call of categorizeTransaction on the tables as they stand.  A call
\* replaces the response of the call before it, so calls start from a state
\* that holds no response.
CategorizeTransaction(f, tx) ==
    /\ catIn = None
    /\ catIn' = [call |-> "single", familyId |-> f, transactions |-> <<tx>>]
    /\ catOut' = categorizeTransaction(rules, categories, f,
                                       tx.description, tx.channel, tx.itemType)
    /\ batchOut' = None
    /\ UNCHANGED <<categories, rules, clock, fpVars, parseVars, importVars, familyVars>>

\* A call of categorizeTransactions on the tables as they stand.
CategorizeTransactions(f, txs) ==
    /\ catIn = None
    /\ catIn' = [call |-> "batch", familyId |-> f, transactions |-> txs]
    /\ batchOut' = categorizeTransactions(rules, categories, f, txs)
    /\ catOut' = None
    /\ UNCHANGED <<categories, rules, clock, fpVars, parseVars, importVars, familyVars>>

CatNext ==
    \/ \E c \in SampleRuleCategoryIds, p \in SampleRulePatterns,
          ch \in SampleRuleChannels, pr \in SamplePriorities :
          CreateRule("F1", c, p.pattern, p.matchType, ch, pr)
    \/ \E c \in SampleRuleCategoryIds, p \in SampleRulePatterns :
          CreateRule("F2", c, p.pattern, p.matchType, None, 10)
    \/ \E f \in Families, id \in 1..MaxRules :
          \/ \E en \in BOOLEAN : UpdateRule(f, id, None, [value |-> en])
          \/ \E pr \in SamplePriorities : UpdateRule(f, id, [value |-> pr], None)
    \/ \E f \in Families, id \in 1..MaxRules : DeleteRule(f, id)
    \/ DeleteCategory("F1", CategoryId("F1", 10))
    \/ \E f \in Families, tx \in SampleTransactions : CategorizeTransaction(f, tx)
    \/ \E f \in Families, txs \in SeqsUpTo(SampleTransactions, MaxBatch) :
          CategorizeTransactions(f, txs)

SpecCat == CatInit /\ [][CatNext]_vars

\* The result the last call returned for its i-th transaction.
resultAt(i) == IF catIn.call = "single" THEN catOut ELSE batchOut[i]

\* Rule r applies to transaction tx: its channel filter and its pattern are
\* both satisfied.
RuleApplies(r, tx) ==
    LET d == toLowerCase(normalizeDescription(tx.description))
        p == toLowerCase(r.pattern)
    IN  /\ r.channel = None
           \/ includes(toLowerCase(tx.channel), toLowerCase(r.channel.value))
        /\ \/ r.matchType = "CONTAINS" /\ includes(d, p)
           \/ r.matchType = "STARTS_WITH" /\ startsWith(d, p)
           \/ r.matchType = "ENDS_WITH" /\ endsWith(d, p)
           \/ r.matchType = "EXACT" /\ d = p
           \/ r.matchType = "REGEX" /\ regexTest(p, d)

\* The enabled rules of family f that apply to tx, as indices of the table.
MatchingRules(f, tx) ==
    {k \in DOMAIN rules :
        rules[k].familyId = f /\ rules[k].enabled /\ RuleApplies(rules[k], tx)}

\* Those of them with the numerically highest priority.
TopRules(f, tx) ==
    {k \in MatchingRules(f, tx) :
        \A j \in MatchingRules(f, tx) : rules[j].priority <= rules[k].priority}

\* A built-in keyword of an active category of family f is found in tx.
HintApplies(f, tx) ==
    \E e \in DOMAIN CHANNEL_CATEGORY_HINTS, c \in DOMAIN categories :
        /\ categories[c].familyId = f /\ categories[c].active
        /\ categories[c].name = CHANNEL_CATEGORY_HINTS[e].name
        /\ \E k \in DOMAIN CHANNEL_CATEGORY_HINTS[e].keywords :
              includes(toUpperCase(normalizeDescription(tx.description)),
                       toUpperCase(CHANNEL_CATEGORY_HINTS[e].keywords[k]))

\* C7: when enabled rules of the family match a transaction, the single and
\* the batch form return the category of a matching rule of the numerically
\* highest priority, whatever the order of creation.
C7_HighestPriorityWins ==
    catIn # None =>
        \A i \in DOMAIN catIn.transactions :
            MatchingRules(catIn.familyId, catIn.transactions[i]) # {} =>
                /\ resultAt(i).matchedBy = "RULE"
                /\ \E k \in TopRules(catIn.familyId, catIn.transactions[i]) :
                      resultAt(i).categoryId = rules[k].categoryId

\* Two rules of different priority and category match, the one of lower
\* priority created first and stored first, and a call has returned.
C7_Witness ==
    /\ catIn # None
    /\ \E i \in DOMAIN catIn.transactions :
          \E a, b \in MatchingRules(catIn.familyId, catIn.transactions[i]) :
              /\ a < b
              /\ rules[a].priority < rules[b].priority
              /\ rules[a].createdAt < rules[b].createdAt
              /\ rules[a].categoryId # rules[b].categoryId
              /\ resultAt(i).categoryId = rules[b].categoryId

\* C8: when two or more matching rules share the highest priority, the result
\* is the category of the one created last.
C8_LaterCreatedWinsTie ==
    catIn # None =>
        \A i \in DOMAIN catIn.transactions :
            LET top == TopRules(catIn.familyId, catIn.transactions[i])
            IN  Cardinality(top) >= 2 =>
                    \E k \in top :
                        /\ \A j \in top : rules[j].createdAt <= rules[k].createdAt
                        /\ resultAt(i).categoryId = rules[k].categoryId

\* C9: a matching rule gives provenance RULE and that rule's category even
\* when a built-in keyword is found too; HINT only without a matching rule;
\* NONE only without a matching rule and without a keyword.
C9_StagesStrictlyOrdered ==
    catIn # None =>
        \A i \in DOMAIN catIn.transactions :
            LET tx == catIn.transactions[i]
                m == MatchingRules(catIn.familyId, tx)
            IN  /\ m # {} =>
                      /\ resultAt(i).matchedBy = "RULE"
                      /\ \E k \in m : resultAt(i).categoryId = rules[k].categoryId
                /\ resultAt(i).matchedBy = "HINT" =>
                      m = {} /\ HintApplies(catIn.familyId, tx)
                /\ resultAt(i).matchedBy = "NONE" =>
                      m = {} /\ ~HintApplies(catIn.familyId, tx)
                /\ resultAt(i).matchedBy \in {"RULE", "HINT", "NONE"}

\* A rule for the category without keywords has won over a keyword that is
\* found in the same description.
C9_Witness ==
    /\ catIn # None
    /\ \E i \in DOMAIN catIn.transactions :
          /\ MatchingRules(catIn.familyId, catIn.transactions[i]) # {}
          /\ HintApplies(catIn.familyId, catIn.transactions[i])
          /\ resultAt(i).matchedBy = "RULE"
          /\ resultAt(i).categoryId = CategoryId("F1", 11)

\* C10: the batch form returns at every index the result the single form
\* returns for that transaction on the same tables.
C10_BatchEqualsSingle ==
    (catIn # None /\ catIn.call = "batch") =>
        \A i \in DOMAIN catIn.transactions :
            batchOut[i] = categorizeTransaction(rules, categories, catIn.familyId,
                                                catIn.transactions[i].description,
                                                catIn.transactions[i].channel,
                                                catIn.transactions[i].itemType)

\* A batch of two has returned a rule result and a keyword result.
C10_Witness ==
    /\ catIn # None /\ catIn.call = "batch"
    /\ Len(catIn.transactions) = 2
    /\ \E i, j \in DOMAIN catIn.transactions :
          batchOut[i].matchedBy = "RULE" /\ batchOut[j].matchedBy = "HINT"

(***************************************************************************)
(* Import: preview and confirm (app/api/import/batch)                      *)
(***************************************************************************)
\* Date.prototype.toISOString and new Date(iso): the instant, as text, and back.
toISOString(t) == [iso |-> t]

dateFromISO(s) == s.iso

\* SHA-256 of the file's bytes, taken collision-free.
generateFileHash(content) == [sha256 |-> content]

\* getCurrentFamily: the family of the user's membership.
familyOfUser(u) == IF u = "U1" THEN "F1" ELSE "F2"

\* _parsedData of the preview response for a parse result; None when the
\* preview answers 400 (parse failure, or no transaction in the file).
parsedData(parseResult, fileHash) ==
    IF ~parseResult.success \/ parseResult.transactions = <<>> THEN None
    ELSE [transactions |->
             [i \in DOMAIN parseResult.transactions |->
                 [parseResult.transactions[i] EXCEPT
                     !.dateTime = toISOString(parseResult.transactions[i].dateTime)]],
          fileHash |-> fileHash,
          statementMonth |-> parseResult.statementMonth]

\* The preview of an uploaded CSV file.
previewData(d) ==
    parsedData(parseCsvStatement(d.lines, d.bank), generateFileHash(d.lines))

\* REPLACE: the batches of this family, owner and month.
existingBatchIds(table, familyId, ownerId, statementMonth) ==
    {table[i].id : i \in {k \in DOMAIN table :
                            /\ table[k].familyId = familyId
                            /\ table[k].ownerUserId = ownerId
                            /\ table[k].statementMonth = statementMonth}}

\* deleteMany({where: {importBatchId}}) and importBatch.delete for each of them
RECURSIVE withoutBatches(_, _)
withoutBatches(rows, ids) ==
    IF rows = <<>> THEN <<>>
    ELSE IF Head(rows).importBatchId \in ids THEN withoutBatches(Tail(rows), ids)
    ELSE <<Head(rows)>> \o withoutBatches(Tail(rows), ids)

RECURSIVE deleteBatches(_, _)
deleteBatches(table, ids) ==
    IF table = <<>> THEN <<>>
    ELSE IF Head(table).id \in ids THEN deleteBatches(Tail(table), ids)
    ELSE <<Head(table)>> \o deleteBatches(Tail(table), ids)

\* Mutation of existingFingerprints: nothing is found in the table.
noFingerprints(rows, familyId, transactions, mergeMode) == {}

\* The fingerprints of the request that the family already stores (DEDUP only).
existingFingerprints(rows, familyId, transactions, mergeMode) ==
    IF mergeMode = "DEDUP"
    THEN {rows[i].fingerprint : i \in {k \in DOMAIN rows :
              /\ rows[k].familyId = familyId
              /\ \E j \in DOMAIN transactions :
                    transactions[j].fingerprint = rows[k].fingerprint}}
    ELSE {}

\* transactions.filter(t => !existingFingerprints.has(t.fingerprint))
RECURSIVE filterNew(_, _)
filterNew(transactions, existing) ==
    IF transactions = <<>> THEN <<>>
    ELSE IF Head(transactions).fingerprint \in existing
         THEN filterNew(Tail(transactions), existing)
         ELSE <<Head(transactions)>> \o filterNew(Tail(transactions), existing)

\* The rows expenseTransaction.create writes for the new transactions.
createdRows(newTransactions, categorizeResults, familyId, batchId, ownerId) ==
    [i \in DOMAIN newTransactions |->
        [familyId |-> familyId, importBatchId |-> batchId, ownerUserId |-> ownerId,
         dateTime |-> dateFromISO(newTransactions[i].dateTime),
         amount |-> newTransactions[i].amount,
         itemType |-> newTransactions[i].itemType,
         channel |-> newTransactions[i].channel,
         descriptionRaw |-> newTransactions[i].descriptionRaw,
         categoryId |-> categorizeResults[i].categoryId,
         fingerprint |-> newTransactions[i].fingerprint]]

\* UNIQUE(familyId, fingerprint) on ExpenseTransaction: some create fails (P2002).
violatesUnique(rows, created) ==
    \/ \E i \in DOMAIN created, k \in DOMAIN rows :
          rows[k].familyId = created[i].familyId
          /\ rows[k].fingerprint = created[i].fingerprint
    \/ \E i, j \in DOMAIN created :
          i # j /\ created[i].fingerprint = created[j].fingerprint

\* The outcome of the confirm request: the tables after it and the response.
\* The database transaction either commits all its writes or none.
confirmImport(u, body, mergeMode, rows, table, batchId) ==
    LET familyId == familyOfUser(u)
        ids == IF mergeMode = "REPLACE"
               THEN existingBatchIds(table, familyId, u, body.statementMonth)
               ELSE {}
        rows1 == withoutBatches(rows, ids)
        table1 == deleteBatches(table, ids)
        existing == existingFingerprints(rows1, familyId, body.transactions, mergeMode)
        newTransactions == filterNew(body.transactions, existing)
        categorizeResults ==
            categorizeTransactions(rules, categories, familyId,
                [i \in DOMAIN newTransactions |->
                    [description |-> newTransactions[i].descriptionRaw,
                     channel |-> newTransactions[i].channel,
                     itemType |-> newTransactions[i].itemType]])
        created == createdRows(newTransactions, categorizeResults, familyId, batchId, u)
        uncategorizedCount ==
            Cardinality({i \in DOMAIN created : created[i].categoryId = None})
        batch == [id |-> batchId, familyId |-> familyId, uploadedByUserId |-> u,
                  ownerUserId |-> u, sourceBank |-> "KBank",
                  statementMonth |-> body.statementMonth, fileHash |-> body.fileHash,
                  totalRowsFound |-> Len(body.transactions),
                  importedCount |-> Len(newTransactions),
                  skippedDuplicateCount |-> Len(body.transactions) - Len(newTransactions),
                  uncategorizedCount |-> uncategorizedCount, status |-> "COMPLETED"]
    IN  IF body.statementMonth = None
        THEN [status |-> 400, expenses |-> rows, batches |-> table,
              importedCount |-> 0, skippedDuplicateCount |-> 0]
        ELSE IF violatesUnique(rows1, created)
        THEN [status |-> 400, expenses |-> rows, batches |-> table,
              importedCount |-> 0, skippedDuplicateCount |-> 0]
        ELSE [status |-> 200, expenses |-> rows1 \o created,
              batches |-> Append(table1, batch),
              importedCount |-> Len(newTransactions),
              skippedDuplicateCount |-> Len(body.transactions) - Len(newTransactions)]

(***************************************************************************)
(* Import harness: two users of two families upload KBank CSV files        *)
(***************************************************************************)
MaxRequests == 4

Users == {"U1", "U2"}

\* Date, Time, Description, Withdrawal, Deposit, Balance
ImportRow1 ==
    [n |-> 6, date |-> Date1, time |-> Time1, itemType |-> <<>>, channel |-> <<>>,
     withdrawal |-> 15000, deposit |-> 0, description |-> TxtCoffee]

ImportRow2 ==
    [n |-> 6, date |-> Date2, time |-> Time1, itemType |-> <<>>, channel |-> <<>>,
     withdrawal |-> 9900, deposit |-> 0, description |-> <<"G","r","a","b"," ","F","o","o","d">>]

SampleUploads ==
    {[kind |-> "csv", bank |-> "kbank", lines |-> <<CsvHeaderLine>> \o rows] :
        rows \in SeqsUpTo({ImportRow1, ImportRow2}, MaxRows)}

ImportInit ==
    /\ expenses = <<>> /\ batches = <<>>
    /\ sessions = [u \in Users |-> None]
    /\ lastImport = None /\ prevImport = None
    /\ categories = DefaultCategories /\ rules = <<>> /\ clock = 0
    /\ catIn = None /\ catOut = None /\ batchOut = None
    /\ FpIdle /\ ParseIdle /\ FamilyIdle

\* POST /api/import/parse by user u with file d: the client keeps _parsedData.
\* A preview that answers 400 leaves the client with what it had.
Preview(u, d) ==
    /\ clock < MaxRequests
    /\ \E data \in {previewData(d)} :
          /\ data # None
          /\ sessions' = [sessions EXCEPT ![u] = [data |-> data, request |-> clock + 1]]
    /\ clock' = clock + 1
    /\ UNCHANGED <<expenses, batches, lastImport, prevImport, categories, rules,
                   catIn, catOut, batchOut, fpVars, parseVars, familyVars>>

\* POST /api/import/confirm by user u, sending back the _parsedData it holds.
Confirm(u, mergeMode) ==
    /\ clock < MaxRequests
    /\ sessions[u] # None
    /\ \E out \in {confirmImport(u, sessions[u].data, mergeMode, expenses, batches,
                                clock + 1)} :
           /\ expenses' = out.expenses
           /\ batches' = out.batches
           /\ lastImport' = [user |-> u, familyId |-> familyOfUser(u),
                             mergeMode |-> mergeMode, preview |-> sessions[u],
                             status |-> out.status,
                             importedCount |-> out.importedCount,
                             skippedDuplicateCount |-> out.skippedDuplicateCount,
                             before |-> expenses]
    /\ prevImport' = IF lastImport # None /\ lastImport.status = 200
                     THEN lastImport ELSE prevImport
    /\ clock' = clock + 1
    /\ UNCHANGED <<sessions, categories, rules, catIn, catOut, batchOut,
                   fpVars, parseVars, familyVars>>

ImportNext ==
    \/ \E u \in Users, d \in SampleUploads : Preview(u, d)
    \/ \E u \in Users, mergeMode \in {"DEDUP", "REPLACE"} : Confirm(u, mergeMode)

SpecImport == ImportInit /\ [][ImportNext]_vars

\* The fingerprints of a request's rows, in row order.
fingerprintsOf(transactions) == [i \in DOMAIN transactions |-> transactions[i].fingerprint]

\* The last confirm is a DEDUP confirm of a file whose content a DEDUP confirm
\* of the same family imported before, with no import in between.
IsReimport ==
    /\ lastImport # None /\ prevImport # None
    /\ lastImport.familyId = prevImport.familyId
    /\ lastImport.preview.data.fileHash = prevImport.preview.data.fileHash
    /\ prevImport.mergeMode = "DEDUP" /\ lastImport.mergeMode = "DEDUP"

\* C2: re-import is idempotent: the second parse of the same CSV content gives
\* every row the fingerprint of the first parse, and after the first has been
\* confirmed in DEDUP mode the second confirm imports nothing, reports every
\* row as a skipped duplicate and leaves the stored transactions as they were.
C2_ReimportIsIdempotent ==
    IsReimport =>
        /\ fingerprintsOf(lastImport.preview.data.transactions)
              = fingerprintsOf(prevImport.preview.data.transactions)
        /\ lastImport.status = 200
        /\ lastImport.importedCount = 0
        /\ lastImport.skippedDuplicateCount = Len(lastImport.preview.data.transactions)
        /\ expenses = lastImport.before

\* A file of two rows was previewed, confirmed, previewed again and confirmed
\* again, and the family's table holds its two rows.
C2_Witness ==
    /\ IsReimport
    /\ lastImport.preview.request # prevImport.preview.request
    /\ Len(lastImport.preview.data.transactions) = 2
    /\ Len(expenses) = 2

(***************************************************************************)
(* Date harness: one calendar date and one time of day, printed in each    *)
(* layout and handed to one of the pipeline's date normalizers             *)
(***************************************************************************)
SampleDays == {1, 15, 31}

SampleMonths == {2, 12}

SampleYears == {2024, 2450, 2500, 2501, 2567}

SampleShortYears == {24, 50, 51, 99}

SampleCalendarDates ==
    [day : SampleDays, month : SampleMonths, year : SampleYears, yearDigits : {4}]
    \cup
    [day : SampleDays, month : SampleMonths, year : SampleShortYears, yearDigits : {2}]

SampleTimeTokens ==
    {[h |-> 10, mi |-> 30, s |-> -1], [h |-> 0, mi |-> 5, s |-> 0],
     [h |-> 23, mi |-> 59, s |-> 58]}

\* The date printed in a layout.
DateToken(layout, d) ==
    [layout |-> layout, day |-> d.day, month |-> d.month, year |-> d.year,
     yearDigits |-> d.yearDigits]

DateInit ==
    /\ doc \in [kind : {"date"}, date : SampleCalendarDates, time : SampleTimeTokens]
    /\ parseOut = None
    /\ FpIdle /\ CatIdle /\ ImportIdle /\ FamilyIdle

\* YYYY-MM-DD has four year digits: a two-digit year has no year-first token.
yearFirst(ymd) == IF doc.date.yearDigits = 4 THEN ymd ELSE None

NormalizeCsv ==
    /\ parseOut = None /\ doc.kind = "date"
    /\ parseOut' = [normalizer |-> "parseDate",
                    dmy    |-> parseDate(DateToken("D/M/Y", doc.date), doc.time),
                    dashed |-> parseDate(DateToken("D-M-Y", doc.date), doc.time),
                    ymd    |-> yearFirst(parseDate(DateToken("Y-M-D", doc.date), doc.time))]
    /\ UNCHANGED <<doc, fpVars, catVars, importVars, familyVars>>

NormalizePdfjs ==
    /\ parseOut = None /\ doc.kind = "date"
    /\ parseOut' = [normalizer |-> "parseTransactionDate",
                    dmy    |-> parseTransactionDate(DateToken("D/M/Y", doc.date), doc.time),
                    dashed |-> parseTransactionDate(DateToken("D-M-Y", doc.date), doc.time),
                    ymd    |-> yearFirst(parseTransactionDate(DateToken("Y-M-D", doc.date), doc.time))]
    /\ UNCHANGED <<doc, fpVars, catVars, importVars, familyVars>>

NormalizeThai ==
    /\ parseOut = None /\ doc.kind = "date"
    /\ parseOut' = [normalizer |-> "parseThaiDate",
                    dmy    |-> parseThaiDate(DateToken("D/M/Y", doc.date), doc.time),
                    dashed |-> parseThaiDate(DateToken("D-M-Y", doc.date), doc.time),
                    ymd    |-> yearFirst(parseThaiDate(DateToken("Y-M-D", doc.date), doc.time))]
    /\ UNCHANGED <<doc, fpVars, catVars, importVars, familyVars>>

DateNext == NormalizeCsv \/ NormalizePdfjs \/ NormalizeThai

SpecDate == DateInit /\ [][DateNext]_vars

\* The results of the last normalizer call that are timestamps.
normalized ==
    {r \in {parseOut.dmy, parseOut.dashed, parseOut.ymd} : r # None /\ r.ok}

\* C11: every date normalizer subtracts 543 from a four-digit year exactly
\* when the year is greater than 2500: 2567 resolves to 2024, and 2024, 2450
\* and 2500 are left unchanged.
C11_BuddhistEraAbove2500 ==
    (parseOut # None /\ doc.date.yearDigits = 4) =>
        \A r \in normalized :
            YearMonthOf(r.t).year =
                IF doc.date.year > 2500 THEN doc.date.year - 543 ELSE doc.date.year

(***************************************************************************)
(* Rows of the parser harness that a claim singles out                     *)
(***************************************************************************)
\* The amount the row prints first (CSV: in the withdrawal column).
rowAmount(d, row) ==
    IF d.kind = "csv" THEN row.withdrawal
    ELSE IF row.amounts = <<>> THEN 0 ELSE row.amounts[1]

\* The document holds one data row: a withdrawal of at least 1.00 described
\* as "Coffee" (a PDF's text being long enough to be read as a statement).
OnePlainRow ==
    /\ parseOut # None /\ Len(dataRows(doc)) = 1
    /\ rowAmount(doc, dataRows(doc)[1]) >= 100
    /\ freeText(doc, dataRows(doc)[1]) = TxtCoffee
    /\ dataRows(doc)[1].date # None
    /\ doc.kind = "pdf" => doc.header.len >= 100

onlyRow == dataRows(doc)[1]

\* C12: a row whose day-first date has a two-digit year yy is returned as a
\* transaction dated in 1900+yy when yy > 50 and in 2000+yy otherwise, in
\* every parse path.
C12_TwoDigitYearAccepted ==
    (OnePlainRow /\ onlyRow.time # None /\ onlyRow.date.yearDigits = 2) =>
        /\ Len(parseOut.result.transactions) = 1
        /\ YearMonthOf(parseOut.result.transactions[1].dateTime).year =
               IF onlyRow.date.year > 50 THEN 1900 + onlyRow.date.year
               ELSE 2000 + onlyRow.date.year

\* C13: in each date normalizer the day-first tokens D/M/Y and D-M-Y and the
\* year-first token YYYY-MM-DD of one calendar date normalize, with the same
\* time token, to the same timestamp.
C13_DayFirstEqualsYearFirst ==
    (parseOut # None /\ doc.date.yearDigits = 4) =>
        /\ parseOut.ymd.ok
        /\ parseOut.dmy = parseOut.ymd
        /\ parseOut.dashed = parseOut.ymd

\* C14: every transaction of every result has an amount greater than zero,
\* in every parse path; a row whose only amount is 0.00 yields none.
C14_AmountsPositive ==
    parseOut # None =>
        \A i \in DOMAIN parseOut.result.transactions :
            parseOut.result.transactions[i].amount > 0

\* A row every parse path can read: a day-first date with a four-digit year,
\* a time, a positive amount of at least 1.00 (CSV: in either column) and a
\* non-empty free text.
readableRow(d, row) ==
    /\ row.date # None /\ row.date.yearDigits = 4 /\ row.date.layout = "D/M/Y"
    /\ row.time # None
    /\ IF d.kind = "csv" THEN row.withdrawal >= 100 \/ row.deposit >= 100
       ELSE rowAmount(d, row) >= 100
    /\ freeText(d, row) # <<>>

\* C15: a readable row whose text contains no inflow phrase is returned as a
\* transaction, whatever other words it contains and whichever column its
\* amount is in.
C15_PureDenylist ==
    (/\ parseOut # None /\ Len(dataRows(doc)) = 1
     /\ doc.kind = "pdf" => doc.header.len >= 100
     /\ readableRow(doc, onlyRow)
     /\ ~hasInflowPattern(freeText(doc, onlyRow)))
        => Len(parseOut.result.transactions) = 1

\* C16: a result without transactions has success = FALSE and a non-empty
\* error; success = TRUE implies at least one transaction, in every parse
\* path.
C16_EmptyResultFails ==
    (parseOut # None /\ parseOut.result.transactions = <<>>) =>
        /\ ~parseOut.result.success
        /\ parseOut.result.error # ""

(***************************************************************************)
(* Password-protected PDFs: text extraction, the two parsers' handling of  *)
(* an extraction error, and the import preview route                       *)
(*   a document is [encrypted, secret, noPasswordError, badPasswordError,  *)
(*   header, lines]: the two errors are the messages the extraction        *)
(*   library throws for a missing and for a rejected password              *)
(***************************************************************************)
MsgNoPasswordGiven == <<"N","o"," ","p","a","s","s","w","o","r","d"," ","g","i","v","e","n">>

MsgIsEncrypted == <<"P","D","F"," ","i","s"," ","e","n","c","r","y","p","t","e","d">>

MsgIncorrectPassword == <<"I","n","c","o","r","r","e","c","t"," ","P","a","s","s","w","o","r","d">>

MsgWrongPassword == <<"w","r","o","n","g"," ","p","a","s","s","w","o","r","d">>

MsgPasswordException == <<"P","a","s","s","w","o","r","d","E","x","c","e","p","t","i","o","n">>

PASSWORD_REQUIRED == <<"P","A","S","S","W","O","R","D","_","R","E","Q","U","I","R","E","D">>

PDF_PASSWORD_PROTECTED == <<"P","D","F","_","P","A","S","S","W","O","R","D","_","P","R","O","T","E","C","T","E","D">>

ScannedPdfError == <<"T","h","i","s"," ","a","p","p","e","a","r","s"," ","t","o"," ","b","e"," ","a"," ","s","c","a","n","n","e","d","/","i","m","a","g","e","-","b","a","s","e","d"," ","P","D","F",".">>

\* The extraction library (pdfParse.pdf, pdfjs getDocument) as a black box:
\* the text, or the error it throws for an encrypted document.
extractPdfText(d, password) ==
    IF ~d.encrypted \/ password = d.secret THEN [ok |-> TRUE]
    ELSE IF password = None THEN [ok |-> FALSE, message |-> d.noPasswordError]
    ELSE [ok |-> FALSE, message |-> d.badPasswordError]

\* `Failed to parse PDF: ${message}` of the outer catch
FailedToParse(message) ==
    FailResult(<<"F","a","i","l","e","d"," ","t","o"," ","p","a","r","s","e"," ","P","D","F",":"," ">> \o message)

\* kbank-parser parseKBankStatement(fileBuffer, {password})
parsePdfParse(d, password) ==
    LET data == extractPdfText(d, password) IN
    IF data.ok THEN parseKBankStatement(d.header, d.lines)
    ELSE IF \/ includes(data.message, <<"p","a","s","s","w","o","r","d">>)
            \/ includes(data.message, <<"e","n","c","r","y","p","t","e","d">>)
    THEN FailResult(PASSWORD_REQUIRED)
    ELSE IF includes(data.message, <<"s","t","r","e","a","m">>)
    THEN FailResult(ScannedPdfError)
    ELSE FailedToParse(data.message)

\* pdfjs parseKBankStatement(fileBuffer, {password})
parsePdfjs(d, password) ==
    LET text == extractPdfText(d, password) IN
    IF text.ok THEN parseKBankStatementPdfjs(d.header, d.lines)
    ELSE IF \/ includes(text.message, <<"p","a","s","s","w","o","r","d">>)
            \/ includes(text.message, <<"e","n","c","r","y","p","t","e","d">>)
            \/ includes(text.message, <<"P","a","s","s","w","o","r","d","E","x","c","e","p","t","i","o","n">>)
    THEN FailResult(PASSWORD_REQUIRED)
    ELSE IF includes(text.message, <<"s","t","r","e","a","m">>)
    THEN FailResult(ScannedPdfError)
    ELSE FailedToParse(text.message)

\* kbank-parser validatePdfFile(fileBuffer): extraction without a password
validatePdfFile(d) ==
    LET data == extractPdfText(d, None) IN
    IF data.ok
    THEN [valid |-> textLength(d.header, d.lines) >= 50, requiresPassword |-> FALSE]
    ELSE IF \/ includes(data.message, <<"p","a","s","s","w","o","r","d">>)
            \/ includes(data.message, <<"e","n","c","r","y","p","t","e","d">>)
    THEN [valid |-> TRUE, requiresPassword |-> TRUE]
    ELSE [valid |-> FALSE, requiresPassword |-> FALSE]

\* The branch of the preview route on a failed parse.
parseFailedStep(error) ==
    IF error = PASSWORD_REQUIRED THEN [status |-> 200, step |-> "PASSWORD_REQUIRED"]
    ELSE IF error = PDF_PASSWORD_PROTECTED
    THEN [status |-> 400, step |-> "PASSWORD_NOT_SUPPORTED"]
    ELSE IF includes(error, <<"p","a","s","s","w","o","r","d">>)
    THEN [status |-> 200, step |-> "PASSWORD_INVALID"]
    ELSE [status |-> 400, step |-> "PARSE_FAILED"]

\* The preview route after the parse: its branches on the ParseResult.
previewParsed(parseResult) ==
    IF ~parseResult.success THEN parseFailedStep(parseResult.error)
    ELSE IF parseResult.transactions = <<>>
    THEN [status |-> 400, step |-> "NO_TRANSACTIONS"]
    ELSE [status |-> 200, step |-> "PREVIEW"]

\* The preview route after validatePdfFile.
previewValidated(validation, d, password) ==
    IF ~validation.valid /\ ~validation.requiresPassword
    THEN [status |-> 400, step |-> "VALIDATION_FAILED"]
    ELSE IF validation.requiresPassword /\ password = None
    THEN [status |-> 200, step |-> "PASSWORD_REQUIRED"]
    ELSE previewParsed(parsePdfParse(d, password))

\* POST /api/import/batch, step preview, for a PDF upload
previewPdf(d, password) == previewValidated(validatePdfFile(d), d, password)

(***************************************************************************)
(* Password harness: one PDF, parsed or previewed with a password choice   *)
(***************************************************************************)
SamplePasswords == {None, [value |-> "secret"], [value |-> "wrong"]}

ProtectedDocs ==
    [kind : {"protected pdf"}, encrypted : BOOLEAN, secret : {[value |-> "secret"]},
     noPasswordError : {MsgNoPasswordGiven, MsgIsEncrypted},
     badPasswordError : {MsgIncorrectPassword, MsgWrongPassword, MsgIsEncrypted,
                         MsgPasswordException},
     header : {[len |-> 200, month |-> None, range |-> None]},
     lines : {<<l>> : l \in PlainPdfLines}]

PasswordInit ==
    /\ doc \in ProtectedDocs
    /\ parseOut = None
    /\ FpIdle /\ CatIdle /\ ImportIdle /\ FamilyIdle

ParsePdfParseWithPassword(password) ==
    /\ parseOut = None /\ doc.kind = "protected pdf"
    /\ \E r \in {parsePdfParse(doc, password)} :
          parseOut' = [path |-> "pdf-parse", password |-> password,
                       error |-> IF r.success THEN <<>> ELSE r.error]
    /\ UNCHANGED <<doc, fpVars, catVars, importVars, familyVars>>

ParsePdfjsWithPassword(password) ==
    /\ parseOut = None /\ doc.kind = "protected pdf"
    /\ \E r \in {parsePdfjs(doc, password)} :
          parseOut' = [path |-> "pdfjs", password |-> password,
                       error |-> IF r.success THEN <<>> ELSE r.error]
    /\ UNCHANGED <<doc, fpVars, catVars, importVars, familyVars>>

PreviewPdf(password) ==
    /\ parseOut = None /\ doc.kind = "protected pdf"
    /\ parseOut' = [path |-> "route", password |-> password,
                    response |-> previewPdf(doc, password)]
    /\ UNCHANGED <<doc, fpVars, catVars, importVars, familyVars>>

PasswordNext ==
    \E password \in SamplePasswords :
        \/ ParsePdfParseWithPassword(password)
        \/ ParsePdfjsWithPassword(password)
        \/ PreviewPdf(password)

SpecPassword == PasswordInit /\ [][PasswordNext]_vars

\* The document is encrypted and the request carries no password.
passwordMissing == doc.encrypted /\ parseOut.password = None

\* The document is encrypted and the extractor rejects the request's password.
passwordRejected ==
    doc.encrypted /\ parseOut.password # None /\ parseOut.password # doc.secret

\* C17: an encrypted document without a password is answered 'password
\* required'; a password the extractor rejects is answered 'password
\* incorrect' by the import route and never 'password required' by a parser.
C17_PasswordOutcomesDistinct ==
    parseOut # None =>
        /\ passwordMissing =>
               IF parseOut.path = "route"
               THEN parseOut.response.step = "PASSWORD_REQUIRED"
               ELSE parseOut.error = PASSWORD_REQUIRED
        /\ passwordRejected =>
               IF parseOut.path = "route"
               THEN parseOut.response.step = "PASSWORD_INVALID"
               ELSE parseOut.error # PASSWORD_REQUIRED

\* C18: every transaction of every result has a descriptionRaw of at least 1
\* and at most 500 characters, in every parse path.
C18_DescriptionBounded ==
    parseOut # None =>
        \A i \in DOMAIN parseOut.result.transactions :
            /\ Len(parseOut.result.transactions[i].descriptionRaw) >= 1
            /\ Len(parseOut.result.transactions[i].descriptionRaw) <= 500

\* A row with a four-digit-year date and no time token: a withdrawal of at least
\* 1.00 described as "Coffee".
rowWithoutTime(d, row) ==
    /\ row.date # None /\ row.date.yearDigits = 4 /\ row.time = None
    /\ rowAmount(d, row) >= 100
    /\ freeText(d, row) = TxtCoffee

\* The printed date at 00:00:00.
midnightOf(date) == NewDate(BuddhistYear(date.year), date.month - 1, date.day, 0, 0, 0)

\* C19: a row with a date and no time is returned as a transaction at
\* 00:00:00 of its printed date, in every parse path: it is neither dropped
\* nor given the time of an earlier row.
C19_MissingTimeIsMidnight ==
    (parseOut # None /\ (doc.kind = "pdf" => doc.header.len >= 100)) =>
        \A i \in DOMAIN dataRows(doc) :
            rowWithoutTime(doc, dataRows(doc)[i]) =>
                \E k \in DOMAIN parseOut.result.transactions :
                    parseOut.result.transactions[k].dateTime
                        = midnightOf(dataRows(doc)[i].date)

\* ym is a month with the highest count among the dates.
isModeMonth(ym, dates) ==
    /\ monthCount(dates, ym) > 0
    /\ \A j \in DOMAIN dates :
           monthCount(dates, YearMonthOf(dates[j])) <= monthCount(dates, ym)

\* ym is what the three-step chain gives: the month named next to a year in
\* the text, else the month of the printed date range, else a month with the
\* most transactions.
isChainMonth(ym, d, transactions) ==
    IF d.kind = "pdf" /\ d.header.month # None
    THEN ym = [year |-> BuddhistYear(d.header.month.year), month |-> d.header.month.month]
    ELSE IF d.kind = "pdf" /\ d.header.range # None
    THEN ym = [year |-> BuddhistYear(d.header.range.year), month |-> d.header.range.month]
    ELSE isModeMonth(ym, datesOf(transactions))

\* C20: a successful result with at least one transaction has a non-null
\* statementMonth, the one the three-step chain gives, in every parse path.
C20_StatementMonthChain ==
    (/\ parseOut # None /\ parseOut.result.success
     /\ parseOut.result.transactions # <<>>) =>
        /\ parseOut.result.statementMonth # None
        /\ isChainMonth(parseOut.result.statementMonth, doc,
                        parseOut.result.transactions)

(***************************************************************************)
(* CSV field splitter (lib/parser/csv-parser parseCsvLine)                 *)
(***************************************************************************)
Quote == "\""

\* The character loop of parseCsvLine: a quote toggles inQuotes and is not
\* kept, a comma outside quotes ends the field, any other character is kept.
RECURSIVE csvCharLoop(_, _, _, _, _)
csvCharLoop(line, i, current, inQuotes, result) ==
    IF i > Len(line) THEN Append(result, current)
    ELSE IF line[i] = Quote
    THEN csvCharLoop(line, i + 1, current, ~inQuotes, result)
    ELSE IF line[i] = "," /\ ~inQuotes
    THEN csvCharLoop(line, i + 1, <<>>, inQuotes, Append(result, current))
    ELSE csvCharLoop(line, i + 1, Append(current, line[i]), inQuotes, result)

\* s.replace(/^"|"$/g, '')
stripEdgeQuotes(s) ==
    LET a == IF s # <<>> /\ Head(s) = Quote THEN Tail(s) ELSE s
    IN  IF a # <<>> /\ a[Len(a)] = Quote THEN SubSeq(a, 1, Len(a) - 1) ELSE a

parseCsvLine(line) ==
    LET result == csvCharLoop(line, 1, <<>>, FALSE, <<>>)
    IN  [k \in DOMAIN result |-> trim(stripEdgeQuotes(result[k]))]

(***************************************************************************)
(* CSV line harness: one line, split into fields                           *)
(***************************************************************************)
MaxLineLen == 5

CsvAlphabet == {"a", ",", Quote, " "}

CsvLineInit ==
    /\ doc \in [kind : {"csv line"}, line : Texts(CsvAlphabet, MaxLineLen)]
    /\ parseOut = None
    /\ FpIdle /\ CatIdle /\ ImportIdle /\ FamilyIdle

SplitLine ==
    /\ parseOut = None /\ doc.kind = "csv line"
    /\ parseOut' = [fields |-> parseCsvLine(doc.line)]
    /\ UNCHANGED <<doc, fpVars, catVars, importVars, familyVars>>

CsvLineNext == SplitLine

SpecCsvLine == CsvLineInit /\ [][CsvLineNext]_vars

\* Quote-aware splitting as the format defines it: inside a quoted field a
\* doubled quote is one literal quote and a comma is part of the value.
RECURSIVE quoteAwareLoop(_, _, _, _, _)
quoteAwareLoop(line, i, current, inQuotes, result) ==
    IF i > Len(line) THEN Append(result, current)
    ELSE IF line[i] = Quote /\ inQuotes /\ i < Len(line) /\ line[i + 1] = Quote
    THEN quoteAwareLoop(line, i + 2, Append(current, Quote), inQuotes, result)
    ELSE IF line[i] = Quote
    THEN quoteAwareLoop(line, i + 1, current, ~inQuotes, result)
    ELSE IF line[i] = "," /\ ~inQuotes
    THEN quoteAwareLoop(line, i + 1, <<>>, inQuotes, Append(result, current))
    ELSE quoteAwareLoop(line, i + 1, Append(current, line[i]), inQuotes, result)

quoteAwareFields(line) ==
    LET result == quoteAwareLoop(line, 1, <<>>, FALSE, <<>>)
    IN  [k \in DOMAIN result |-> trim(result[k])]

\* The commas of the line that stand outside quotes.
unquotedCommas(line) ==
    {i \in DOMAIN line :
        /\ line[i] = ","
        /\ Cardinality({j \in 1..(i - 1) : line[j] = Quote}) % 2 = 0}

\* Every quote of the line that opens a field is closed.
quotesBalanced(line) == Cardinality({j \in DOMAIN line : line[j] = Quote}) % 2 = 0

\* C21: on a line whose quotes are balanced the field splitter returns one
\* field more than the line has unquoted commas, keeps a comma inside a
\* quoted field in the field value, and turns a doubled quote inside a quoted
\* field into one literal quote.
C21_QuoteAwareSplit ==
    (parseOut # None /\ quotesBalanced(doc.line)) =>
        /\ Len(parseOut.fields) = Cardinality(unquotedCommas(doc.line)) + 1
        /\ parseOut.fields = quoteAwareFields(doc.line)

(***************************************************************************)
(* Matching harness: one family, rules whose patterns hold punctuation,    *)
(* categories that are deleted, and descriptions as statements print them  *)
(***************************************************************************)
\* Ids of the default categories by sortOrder: food 1, travel 2, shopping 7,
\* subscriptions 10, others 11.
MatchRuleCategoryIds == {CategoryId("F1", 7)}

MatchRulePatterns ==
    {[pattern |-> <<"7","-","e","l","e","v","e","n">>, matchType |-> "CONTAINS"],
     [pattern |-> <<"a","/","c"," ">>, matchType |-> "STARTS_WITH"],
     [pattern |-> <<"f","o","o","d">>, matchType |-> "ENDS_WITH"],
     [pattern |-> <<"C","o","f","f","e","e"," ","S","h","o","p">>, matchType |-> "EXACT"]}

MatchDeletedCategoryIds == {CategoryId("F1", 7), CategoryId("F1", 10), CategoryId("F1", 1)}

MatchTransactions ==
    {[description |-> <<"7","-","E","l","e","v","e","n"," ","R","a","m","a"," ","9">>, channel |-> <<"K"," ","P","L","U","S">>, itemType |-> <<"O","t","h","e","r">>],
     [description |-> <<"A","/","C"," ","S","e","r","v","i","c","e">>, channel |-> <<"K"," ","P","L","U","S">>, itemType |-> <<"O","t","h","e","r">>],
     [description |-> <<"G","r","a","b"," ","F","o","o","d">>, channel |-> <<"K"," ","P","L","U","S">>, itemType |-> <<"O","t","h","e","r">>],
     [description |-> <<"c","o","f","f","e","e"," "," ","s","h","o","p">>, channel |-> <<"K"," ","P","L","U","S">>, itemType |-> <<"O","t","h","e","r">>],
     [description |-> <<"W","a","t","e","r">>, channel |-> <<"K"," ","P","L","U","S">>, itemType |-> <<"O","t","h","e","r">>]}

MatchNext ==
    \/ \E c \in MatchRuleCategoryIds, p \in MatchRulePatterns :
          CreateRule("F1", c, p.pattern, p.matchType, None, 50)
    \/ \E id \in 1..MaxRules, en \in BOOLEAN : UpdateRule("F1", id, None, [value |-> en])
    \/ \E c \in MatchDeletedCategoryIds : DeleteCategory("F1", c)
    \/ \E tx \in MatchTransactions : CategorizeTransaction("F1", tx)
    \/ \E tx \in MatchTransactions : CategorizeTransactions("F1", <<tx>>)

SpecMatch == CatInit /\ [][MatchNext]_vars

\* The comparison of a rule's pattern with the lowercased description.
patternFits(r, description) ==
    LET d == toLowerCase(description)
        p == toLowerCase(r.pattern)
    IN  \/ r.matchType = "CONTAINS" /\ includes(d, p)
        \/ r.matchType = "STARTS_WITH" /\ startsWith(d, p)
        \/ r.matchType = "ENDS_WITH" /\ endsWith(d, p)
        \/ r.matchType = "EXACT" /\ d = p

\* C22: when an enabled rule of the family without channel filter has a
\* pattern that is, case-insensitively, a substring (CONTAINS), the start
\* (STARTS_WITH), the end (ENDS_WITH) or the whole (EXACT) of a transaction's
\* description, punctuation included, the result has provenance RULE.
C22_PatternComparedWithLowercasedDescription ==
    catIn # None =>
        \A i \in DOMAIN catIn.transactions :
            (\E k \in DOMAIN rules :
                /\ rules[k].familyId = catIn.familyId /\ rules[k].enabled
                /\ rules[k].channel = None
                /\ patternFits(rules[k], catIn.transactions[i].description))
            => resultAt(i).matchedBy = "RULE"

\* Some keyword of a hint category whose name an active category of family f
\* bears is a substring of the uppercased description.
keywordInDescription(f, description) ==
    \E e \in DOMAIN CHANNEL_CATEGORY_HINTS, c \in DOMAIN categories :
        /\ categories[c].familyId = f /\ categories[c].active
        /\ categories[c].name = CHANNEL_CATEGORY_HINTS[e].name
        /\ \E k \in DOMAIN CHANNEL_CATEGORY_HINTS[e].keywords :
              includes(toUpperCase(description),
                       toUpperCase(CHANNEL_CATEGORY_HINTS[e].keywords[k]))

\* C23: when no rule matched, the result has provenance HINT exactly when a
\* keyword of the table, punctuation included, is a substring of the
\* uppercased description and the family has an active category of that
\* hint category's name.
C23_HintIffKeywordInUppercasedDescription ==
    catIn # None =>
        \A i \in DOMAIN catIn.transactions :
            resultAt(i).matchedBy # "RULE" =>
                (resultAt(i).matchedBy = "HINT"
                    <=> keywordInDescription(catIn.familyId,
                                             catIn.transactions[i].description))

\* The category row of this id is an active category of family f.
isActiveCategoryOf(f, id) ==
    \E c \in DOMAIN categories :
        categories[c].id = id /\ categories[c].familyId = f /\ categories[c].active

\* C26: every result of provenance RULE or HINT names a category that is, on
\* the tables the call read, an active category of the family.
C26_NeverAssignsDeletedCategory ==
    catIn # None =>
        \A i \in DOMAIN catIn.transactions :
            resultAt(i).matchedBy \in {"RULE", "HINT"} =>
                isActiveCategoryOf(catIn.familyId, resultAt(i).categoryId)

\* The text the hint stage searches.
searchedText(description) == toUpperCase(normalizeDescription(description))

\* The keywords of entry e found in the text, as indices of its list.
keywordsFound(e, description) ==
    {k \in DOMAIN CHANNEL_CATEGORY_HINTS[e].keywords :
        includes(searchedText(description),
                 toUpperCase(CHANNEL_CATEGORY_HINTS[e].keywords[k]))}

\* The entries of the table that family f has as an active category and of
\* which the text holds a keyword.
hintEntries(f, description) ==
    {e \in DOMAIN CHANNEL_CATEGORY_HINTS :
        /\ keywordsFound(e, description) # {}
        /\ \E c \in DOMAIN categories :
              /\ categories[c].familyId = f /\ categories[c].active
              /\ categories[c].name = CHANNEL_CATEGORY_HINTS[e].name}

minOf(S) == CHOOSE x \in S : \A y \in S : x <= y

\* C30: when no rule matches and the text holds keywords of hint categories
\* the family has as active categories, the result is the category of the
\* entry declared first among them, with the first listed keyword of that
\* entry that is found.
C30_FirstDeclaredHintWins ==
    catIn # None =>
        \A i \in DOMAIN catIn.transactions :
            LET tx == catIn.transactions[i]
                es == hintEntries(catIn.familyId, tx.description)
            IN  (MatchingRules(catIn.familyId, tx) = {} /\ es # {}) =>
                    LET e == minOf(es)
                        k == minOf(keywordsFound(e, tx.description))
                    IN  /\ resultAt(i).matchedBy = "HINT"
                        /\ resultAt(i).categoryName = CHANNEL_CATEGORY_HINTS[e].name
                        /\ resultAt(i).matchedRule =
                              matchedRuleText("keyword",
                                              CHANNEL_CATEGORY_HINTS[e].keywords[k])

\* 'Grab Food' holds GRAB of the second entry and GRAB FOOD of the fourth,
\* both active, and the call returned the category of the second.
C30_Witness ==
    /\ catIn # None
    /\ \E i \in DOMAIN catIn.transactions :
          LET tx == catIn.transactions[i]
              es == hintEntries(catIn.familyId, tx.description)
          IN  /\ MatchingRules(catIn.familyId, tx) = {}
              /\ {2, 4} \subseteq es
              /\ 1 \in keywordsFound(4, tx.description)
              /\ resultAt(i).matchedBy = "HINT"
              /\ resultAt(i).categoryName = CHANNEL_CATEGORY_HINTS[2].name
              /\ resultAt(i).categoryId = CategoryId("F1", 10)

\* C29: in every successful result of every parse path the number of
\* transactions plus filteredOutCount is at most rawRowCount; every failure
\* result has no transactions, no statementMonth and both counters 0.
C29_CountersConsistent ==
    parseOut # None =>
        LET r == parseOut.result
        IN  /\ r.success => Len(r.transactions) + r.filteredOutCount <= r.rawRowCount
            /\ ~r.success =>
                  /\ r.transactions = <<>>
                  /\ r.statementMonth = None
                  /\ r.rawRowCount = 0 /\ r.filteredOutCount = 0

\* A successful parse of two rows kept one as a transaction and filtered the
\* other out.
C29_Witness ==
    /\ parseOut # None /\ parseOut.result.success
    /\ Len(parseOut.result.transactions) = 1
    /\ parseOut.result.filteredOutCount = 1
    /\ parseOut.result.rawRowCount = 2

(***************************************************************************)
(* Families: create-family, create-invite and accept-invite requests       *)
(* (app/api/family, app/api/family/invite, app/api/family/invite/accept).  *)
(* A request runs up to its next database call, where other requests may   *)
(* run; requests[r] holds what request r has read so far.                  *)
(***************************************************************************)
MaxFamilyRequests == 3

MaxInvites == 2

People == {"P1", "P2", "P3"}

Idle == [pc |-> "idle"]

Done(status) == [pc |-> "done", status |-> status]

\* The lowest request slot not yet used.
freeSlot(r) ==
    /\ r \in DOMAIN requests /\ requests[r] = Idle
    /\ \A q \in DOMAIN requests : q < r => requests[q] # Idle

\* prisma.membership.findFirst({where: {userId}}) finds a row
hasMembership(userId) == \E m \in memberships : m.userId = userId

\* family.memberships of include: {memberships: ...}
membershipsOf(familyId) == {m \in memberships : m.familyId = familyId}

\* prisma.family.findUnique({where: {inviteCode: code}}): the family's id, 0
\* when no family bears the code
findFamilyByInviteCode(code) ==
    IF \E f \in DOMAIN families : families[f].inviteCode = [value |-> code]
    THEN CHOOSE f \in DOMAIN families : families[f].inviteCode = [value |-> code]
    ELSE 0

\* The unique index Membership_userId_familyId_key rejects the row.
membershipExists(userId, familyId) ==
    \E m \in memberships : m.userId = userId /\ m.familyId = familyId

FamilyInit ==
    /\ families = <<>>
    /\ memberships = {}
    /\ requests = [r \in 1..MaxFamilyRequests |-> Idle]
    /\ FpIdle /\ ParseIdle /\ CatIdle /\ ImportIdle

\* POST /api/family by user u, up to its first await: the check that the
\* user has no family yet.
CreateFamilyCheck(r, u) ==
    /\ freeSlot(r)
    /\ requests' = [requests EXCEPT ![r] =
          IF hasMembership(u) THEN Done(400)
          ELSE [pc |-> "createFamily", user |-> u]]
    /\ UNCHANGED <<families, memberships, fpVars, parseVars, catVars, importVars>>

\* POST /api/family, the $transaction: the family and the OWNER membership.
\* The new family's id is fresh, so the unique index cannot reject the row.
CreateFamilyTransaction(r) ==
    /\ requests[r].pc = "createFamily"
    /\ families' = Append(families, [inviteCode |-> None, inviteExpired |-> FALSE,
                                     invites |-> 0])
    /\ memberships' = memberships \cup
          {[userId |-> requests[r].user, familyId |-> Len(families) + 1,
            role |-> "OWNER"]}
    /\ requests' = [requests EXCEPT ![r] = Done(200)]
    /\ UNCHANGED <<fpVars, parseVars, catVars, importVars>>

\* generateInviteCode(): a code no family bore before; the n-th code of
\* family f is written <<f, n>>.
generateInviteCode(f) == <<f, families[f].invites + 1>>

\* POST /api/family/invite by a member of family f: a new code, valid for
\* seven days, replaces the family's code; refused when the family has two
\* members.  MaxInvites bounds the codes a family is given.
CreateInvite(f) ==
    /\ f \in DOMAIN families
    /\ families[f].invites < MaxInvites
    /\ membershipsOf(f) # {}
    /\ Cardinality(membershipsOf(f)) < 2
    /\ families' = [families EXCEPT ![f] =
                       [inviteCode |-> [value |-> generateInviteCode(f)],
                        inviteExpired |-> FALSE, invites |-> @.invites + 1]]
    /\ UNCHANGED <<memberships, requests, fpVars, parseVars, catVars, importVars>>

\* Seven days pass: family.inviteExpiresAt < new Date()
InviteExpires(f) ==
    /\ f \in DOMAIN families
    /\ families[f].inviteCode # None /\ ~families[f].inviteExpired
    /\ families' = [families EXCEPT ![f].inviteExpired = TRUE]
    /\ UNCHANGED <<memberships, requests, fpVars, parseVars, catVars, importVars>>

\* POST /api/family/invite/accept by user u with a code, up to its first
\* await: the check that the user has no family yet.
AcceptInviteCheck(r, u, code) ==
    /\ freeSlot(r)
    /\ requests' = [requests EXCEPT ![r] =
          IF hasMembership(u) THEN Done(400)
          ELSE [pc |-> "findFamily", user |-> u, code |-> code]]
    /\ UNCHANGED <<families, memberships, fpVars, parseVars, catVars, importVars>>

\* accept, second await: the family of the code with its memberships, and
\* the checks on what was read.
AcceptInviteFindFamily(r) ==
    /\ requests[r].pc = "findFamily"
    /\ \E f \in {findFamilyByInviteCode(requests[r].code)} :
          requests' = [requests EXCEPT ![r] =
              IF f = 0 THEN Done(400)
              ELSE IF families[f].inviteExpired THEN Done(400)
              ELSE IF Cardinality(membershipsOf(f)) >= 2 THEN Done(400)
              ELSE [pc |-> "createMembership", user |-> requests[r].user,
                    familyId |-> f]]
    /\ UNCHANGED <<families, memberships, fpVars, parseVars, catVars, importVars>>

\* accept, third await: prisma.membership.create; a row the unique index
\* rejects makes it throw, and the catch answers 500.
AcceptInviteCreate(r) ==
    /\ requests[r].pc = "createMembership"
    /\ IF membershipExists(requests[r].user, requests[r].familyId)
       THEN /\ requests' = [requests EXCEPT ![r] = Done(500)]
            /\ UNCHANGED memberships
       ELSE /\ memberships' = memberships \cup
                  {[userId |-> requests[r].user, familyId |-> requests[r].familyId,
                    role |-> "MEMBER"]}
            /\ requests' = [requests EXCEPT ![r] = Done(200)]
    /\ UNCHANGED <<families, fpVars, parseVars, catVars, importVars>>

\* The codes a request may carry: those of the first family, and one that
\* no family bears.
SampleInviteCodes == {<<1, n>> : n \in 1..MaxInvites} \cup {<<0, 0>>}

FamilyNext ==
    \/ \E r \in 1..MaxFamilyRequests, u \in People : CreateFamilyCheck(r, u)
    \/ \E r \in 1..MaxFamilyRequests : CreateFamilyTransaction(r)
    \/ \E f \in 1..MaxFamilyRequests : CreateInvite(f)
    \/ \E f \in 1..MaxFamilyRequests : InviteExpires(f)
    \/ \E r \in 1..MaxFamilyRequests, u \in People, code \in SampleInviteCodes :
          AcceptInviteCheck(r, u, code)
    \/ \E r \in 1..MaxFamilyRequests : AcceptInviteFindFamily(r)
    \/ \E r \in 1..MaxFamilyRequests : AcceptInviteCreate(r)

SpecFamily == FamilyInit /\ [][FamilyNext]_vars

\* C24: whatever the requests and their interleaving, no family has more
\* than two memberships.
C24_AtMostTwoMembers ==
    \A f \in DOMAIN families : Cardinality(membershipsOf(f)) <= 2

\* C27: whatever the requests and their interleaving, every user has at
\* most one membership.
C27_AtMostOneMembershipPerUser ==
    \A u \in People : Cardinality({m \in memberships : m.userId = u}) <= 1

(***************************************************************************)
(* Import-confirm requests in flight together.  The handler's writes run   *)
(* inside prisma.$transaction: they are held by the request until the      *)
(* transaction commits, and a throw discards them.  Each statement reads   *)
(* the committed tables; a statement that meets a row another transaction  *)
(* has written or deleted and not yet committed waits for that transaction.*)
(***************************************************************************)
MaxConfirms == 3

\* Files of one row and of the same row twice.
ConfirmUploads ==
    {[kind |-> "csv", bank |-> "kbank", lines |-> <<CsvHeaderLine>> \o rows] :
        rows \in {<<ImportRow1>>, <<ImportRow1, ImportRow1>>}}

ConfirmBodies == {previewData(d) : d \in ConfirmUploads}

\* The requests other than r whose transaction is open.
openOthers(r) ==
    {q \in DOMAIN requests : q # r /\ requests[q].pc \in {"delete", "read", "insert", "commit"}}

\* Mutation of uniqueConflict: the table has no unique index.
noUniqueIndex(rows, deleted, created) == FALSE

\* ExpenseTransaction_familyId_fingerprint_key: a row to create meets a stored
\* row the transaction has not deleted, or another row it creates (P2002).
uniqueConflict(rows, deleted, created) ==
    violatesUnique(withoutBatches(rows, deleted), created)

\* A row to create meets a row that an open transaction of another request
\* has created or deleted: the create waits.
waitsForOther(r, created) ==
    \E q \in openOthers(r) :
        \/ \E i \in DOMAIN created, k \in DOMAIN requests[q].created :
              /\ requests[q].created[k].familyId = created[i].familyId
              /\ requests[q].created[k].fingerprint = created[i].fingerprint
        \/ \E i \in DOMAIN created, k \in DOMAIN expenses :
              /\ expenses[k].importBatchId \in requests[q].deleted
              /\ expenses[k].familyId = created[i].familyId
              /\ expenses[k].fingerprint = created[i].fingerprint

ConfirmInit ==
    /\ expenses = <<>> /\ batches = <<>>
    /\ sessions = None /\ lastImport = None /\ prevImport = None
    /\ categories = DefaultCategories /\ rules = <<>> /\ clock = 0
    /\ catIn = None /\ catOut = None /\ batchOut = None
    /\ families = <<>> /\ memberships = {}
    /\ requests = [r \in 1..MaxConfirms |-> Idle]
    /\ FpIdle /\ ParseIdle

\* POST /api/import/confirm by user u, up to prisma.$transaction: the checks
\* of the body.  The transaction opens holding no write.
ConfirmBegin(r, u, mergeMode, body) ==
    /\ freeSlot(r)
    /\ requests' = [requests EXCEPT ![r] =
          IF body.statementMonth = None THEN Done(400)
          ELSE [pc |-> IF mergeMode = "REPLACE" THEN "find" ELSE "read",
                user |-> u, mergeMode |-> mergeMode, body |-> body,
                found |-> {}, deleted |-> {}, newTransactions |-> <<>>,
                created |-> <<>>]]
    /\ UNCHANGED <<families, memberships, fpVars, parseVars, catVars, importVars>>

\* REPLACE: tx.importBatch.findMany of this family, owner and month.
ConfirmFindBatches(r) ==
    /\ requests[r].pc = "find"
    /\ requests' = [requests EXCEPT ![r].pc = "delete",
          ![r].found = existingBatchIds(batches, familyOfUser(requests[r].user),
                                        requests[r].user,
                                        requests[r].body.statementMonth)]
    /\ UNCHANGED <<families, memberships, fpVars, parseVars, catVars, importVars>>

\* REPLACE: deleteMany and importBatch.delete for each batch found.  A batch
\* another open transaction deletes makes the statement wait; a batch that
\* is gone makes importBatch.delete throw, and the request answers 500.
ConfirmDeleteBatches(r) ==
    /\ requests[r].pc = "delete"
    /\ \A q \in openOthers(r) : requests[q].deleted \cap requests[r].found = {}
    /\ requests' = [requests EXCEPT ![r] =
          IF requests[r].found \subseteq {batches[k].id : k \in DOMAIN batches}
          THEN [@ EXCEPT !.pc = "insert", !.deleted = requests[r].found,
                         !.newTransactions = requests[r].body.transactions]
          ELSE Done(500)]
    /\ UNCHANGED <<families, memberships, fpVars, parseVars, catVars, importVars>>

\* DEDUP: tx.expenseTransaction.findMany of the request's fingerprints, and
\* the filter of the transactions not yet stored.
ConfirmReadFingerprints(r) ==
    /\ requests[r].pc = "read"
    /\ requests' = [requests EXCEPT ![r].pc = "insert",
          ![r].newTransactions =
              filterNew(requests[r].body.transactions,
                        existingFingerprints(expenses, familyOfUser(requests[r].user),
                                             requests[r].body.transactions,
                                             requests[r].mergeMode))]
    /\ UNCHANGED <<families, memberships, fpVars, parseVars, catVars, importVars>>

\* categorizeTransactions, tx.importBatch.create and the loop of
\* tx.expenseTransaction.create.  The batch of request r has id r.  A create
\* the unique index rejects throws P2002: the transaction is rolled back and
\* the request answers 400.
ConfirmInsert(r) ==
    /\ requests[r].pc = "insert"
    /\ \E created \in {createdRows(requests[r].newTransactions,
                          categorizeTransactions(rules, categories,
                              familyOfUser(requests[r].user),
                              [i \in DOMAIN requests[r].newTransactions |->
                                  [description |-> requests[r].newTransactions[i].descriptionRaw,
                                   channel |-> requests[r].newTransactions[i].channel,
                                   itemType |-> requests[r].newTransactions[i].itemType]]),
                          familyOfUser(requests[r].user), r, requests[r].user)} :
          /\ ~waitsForOther(r, created)
          /\ requests' = [requests EXCEPT ![r] =
                IF uniqueConflict(expenses, requests[r].deleted, created)
                THEN [pc |-> "done", status |-> 400, user |-> requests[r].user,
                      mergeMode |-> requests[r].mergeMode, rejected |-> created]
                ELSE [@ EXCEPT !.pc = "commit", !.created = created]]
    /\ UNCHANGED <<families, memberships, fpVars, parseVars, catVars, importVars>>

\* The transaction commits: its deletes and its creates reach the tables.
ConfirmCommit(r) ==
    /\ requests[r].pc = "commit"
    /\ expenses' = withoutBatches(expenses, requests[r].deleted) \o requests[r].created
    /\ batches' = Append(deleteBatches(batches, requests[r].deleted),
          [id |-> r, familyId |-> familyOfUser(requests[r].user),
           uploadedByUserId |-> requests[r].user, ownerUserId |-> requests[r].user,
           sourceBank |-> "KBank",
           statementMonth |-> requests[r].body.statementMonth,
           fileHash |-> requests[r].body.fileHash,
           totalRowsFound |-> Len(requests[r].body.transactions),
           importedCount |-> Len(requests[r].newTransactions),
           skippedDuplicateCount |->
               Len(requests[r].body.transactions) - Len(requests[r].newTransactions),
           uncategorizedCount |->
               Cardinality({i \in DOMAIN requests[r].created :
                               requests[r].created[i].categoryId = None}),
           status |-> "COMPLETED"])
    /\ requests' = [requests EXCEPT ![r] = Done(200)]
    /\ UNCHANGED <<families, memberships, sessions, lastImport, prevImport,
                   fpVars, parseVars, catVars>>

ConfirmNext ==
    \/ \E r \in 1..MaxConfirms, u \in Users, mergeMode \in {"DEDUP", "REPLACE"},
          body \in ConfirmBodies : ConfirmBegin(r, u, mergeMode, body)
    \/ \E r \in 1..MaxConfirms : ConfirmFindBatches(r)
    \/ \E r \in 1..MaxConfirms : ConfirmDeleteBatches(r)
    \/ \E r \in 1..MaxConfirms : ConfirmReadFingerprints(r)
    \/ \E r \in 1..MaxConfirms : ConfirmInsert(r)
    \/ \E r \in 1..MaxConfirms : ConfirmCommit(r)

SpecConfirm == ConfirmInit /\ [][ConfirmNext]_vars

\* The request has been answered with an error.
hasFailed(r) == requests[r].pc = "done" /\ requests[r].status # 200

\* C25: whatever the confirm requests and their interleaving, no two stored
\* transactions of one family share a fingerprint, and nothing a failed
\* confirm wrote is stored: no batch and no transaction of that request.
C25_UniqueFingerprintsAndNoPartialImport ==
    /\ \A i, j \in DOMAIN expenses :
          (i # j /\ expenses[i].familyId = expenses[j].familyId)
              => expenses[i].fingerprint # expenses[j].fingerprint
    /\ \A r \in DOMAIN requests :
          hasFailed(r) =>
              /\ \A k \in DOMAIN batches : batches[k].id # r
              /\ \A k \in DOMAIN expenses : expenses[k].importBatchId # r

\* Two DEDUP confirms of one file by one family ran together: both found the
\* fingerprint absent, one committed, and the create of the other, a single
\* row, was rejected; the family stores the row once.
C25_Witness ==
    \E r, q \in DOMAIN requests :
        /\ hasFailed(r) /\ requests[r].status = 400
        /\ requests[r].mergeMode = "DEDUP" /\ Len(requests[r].rejected) = 1
        /\ requests[q] = Done(200)
        /\ \E k \in DOMAIN expenses :
              /\ expenses[k].importBatchId = q
              /\ expenses[k].familyId = requests[r].rejected[1].familyId
              /\ expenses[k].fingerprint = requests[r].rejected[1].fingerprint
        /\ Cardinality({k \in DOMAIN expenses :
                          expenses[k].familyId = requests[r].rejected[1].familyId}) = 1

(***************************************************************************)
(* Family isolation: rule requests, expense updates, bulk updates and      *)
(* import confirms of two users of two families, one request after another *)
(* (app/api/rules, app/api/expenses, app/api/expenses/bulk-category,       *)
(* app/api/import/batch)                                                   *)
(***************************************************************************)
\* The id of a stored transaction, written by what the unique index keys.
expenseId(row) == <<row.familyId, row.fingerprint>>

\* Mutation of expenseOfFamily: the row is looked up by its id alone.
expenseOfAnyFamily(rows, id, familyId) ==
    \E k \in DOMAIN rows : expenseId(rows[k]) = id

\* prisma.expenseTransaction.findFirst({where: {id, familyId}}) finds a row
expenseOfFamily(rows, id, familyId) ==
    \E k \in DOMAIN rows : expenseId(rows[k]) = id /\ rows[k].familyId = familyId

\* prisma.category.findFirst({where: {id: categoryId, familyId}}) finds a row
categoryOfFamily(cats, categoryId, familyId) ==
    \E c \in DOMAIN cats : cats[c].id = categoryId /\ cats[c].familyId = familyId

\* The rule the expense routes create when createRule is set, on the table
\* wherever the store puts it; without createRule the table as it is.
\* MaxRequests bounds the rows the requests create.
withCreatedRule(table, createRule, familyId, categoryId, rulePattern, id) ==
    IF createRule /\ categoryId # None /\ rulePattern # <<>>
    THEN {insertAt(table, pos,
              [id |-> id, familyId |-> familyId, categoryId |-> categoryId.value,
               pattern |-> trim(rulePattern), matchType |-> "CONTAINS",
               channel |-> None, priority |-> 10, enabled |-> TRUE,
               createdAt |-> id]) : pos \in 1..(Len(table) + 1)}
    ELSE {table}

\* PUT /api/expenses by user u: one transaction's category.  categoryId is
\* None or [value |-> id].
UpdateExpense(u, id, categoryId, createRule, rulePattern) ==
    /\ createRule => clock < MaxRequests
    /\ expenseOfFamily(expenses, id, familyOfUser(u))
    /\ categoryId # None => categoryOfFamily(categories, categoryId.value, familyOfUser(u))
    /\ expenses' = [k \in DOMAIN expenses |->
          IF expenseId(expenses[k]) = id
          THEN [expenses[k] EXCEPT !.categoryId =
                    IF categoryId = None THEN None ELSE categoryId.value]
          ELSE expenses[k]]
    /\ rules' \in withCreatedRule(rules, createRule, familyOfUser(u), categoryId,
                                  rulePattern, clock + 1)
    /\ clock' = IF rules' = rules THEN clock ELSE clock + 1
    /\ UNCHANGED <<categories, catIn, catOut, batchOut, batches, sessions, lastImport,
                   prevImport, fpVars, parseVars, familyVars>>

\* POST /api/expenses/bulk-category by user u: the category of every listed
\* transaction; all of them must be the family's.
BulkCategory(u, expenseIds, categoryId, createRule, rulePattern) ==
    /\ createRule => clock < MaxRequests
    /\ expenseIds # {}
    /\ \A id \in expenseIds : expenseOfFamily(expenses, id, familyOfUser(u))
    /\ categoryId # None => categoryOfFamily(categories, categoryId.value, familyOfUser(u))
    /\ expenses' = [k \in DOMAIN expenses |->
          IF expenseId(expenses[k]) \in expenseIds
             /\ expenses[k].familyId = familyOfUser(u)
          THEN [expenses[k] EXCEPT !.categoryId =
                    IF categoryId = None THEN None ELSE categoryId.value]
          ELSE expenses[k]]
    /\ rules' \in withCreatedRule(rules, createRule, familyOfUser(u), categoryId,
                                  rulePattern, clock + 1)
    /\ clock' = IF rules' = rules THEN clock ELSE clock + 1
    /\ UNCHANGED <<categories, catIn, catOut, batchOut, batches, sessions, lastImport,
                   prevImport, fpVars, parseVars, familyVars>>

IsolationUploads ==
    {[kind |-> "csv", bank |-> "kbank", lines |-> <<CsvHeaderLine, ImportRow1>>]}

\* Category ids a request body may carry: one of each family.
IsolationCategoryIds == {CategoryId("F1", 1), CategoryId("F2", 1)}

OptionalCategoryIds == {None} \cup {[value |-> c] : c \in IsolationCategoryIds}

\* The ids of the stored transactions, of whatever family.
storedExpenseIds == {expenseId(expenses[k]) : k \in DOMAIN expenses}

\* The requests a member of family f may send.
RequestOfFamily(f) ==
    \E u \in Users :
        /\ familyOfUser(u) = f
        /\ \/ \E c \in IsolationCategoryIds :
                 CreateRule(f, c, TxtCoffee, "CONTAINS", None, 10)
           \/ \E id \in 1..MaxRequests, en \in BOOLEAN :
                 UpdateRule(f, id, None, [value |-> en])
           \/ \E id \in 1..MaxRequests : DeleteRule(f, id)
           \/ \E id \in storedExpenseIds, c \in OptionalCategoryIds, cr \in BOOLEAN :
                 UpdateExpense(u, id, c, cr, TxtCoffee)
           \/ \E ids \in SUBSET storedExpenseIds, c \in OptionalCategoryIds :
                 BulkCategory(u, ids, c, FALSE, TxtCoffee)
           \/ \E d \in IsolationUploads : Preview(u, d)
           \/ \E mergeMode \in {"DEDUP", "REPLACE"} : Confirm(u, mergeMode)

IsolationNext == \E f \in Families : RequestOfFamily(f)

SpecIsolation == ImportInit /\ [][IsolationNext]_vars

\* The rows of a table that belong to family f.
rowsOfFamily(table, f) == SelectSeq(table, LAMBDA row : row.familyId = f)

\* Every stored transaction that has a category, and every stored rule, names
\* a category of its own family.
referencesOwnFamily ==
    /\ \A k \in DOMAIN expenses :
          expenses[k].categoryId # None =>
              categoryOfFamily(categories, expenses[k].categoryId, expenses[k].familyId)
    /\ \A k \in DOMAIN rules :
          categoryOfFamily(categories, rules[k].categoryId, rules[k].familyId)

\* A step that is a request of a member of family f leaves the rules, the
\* categories and the transactions of every other family as they were.
othersUntouched ==
    \A f \in Families :
        RequestOfFamily(f) =>
            \A g \in Families \ {f} :
                /\ rowsOfFamily(rules', g) = rowsOfFamily(rules, g)
                /\ rowsOfFamily(categories', g) = rowsOfFamily(categories, g)
                /\ rowsOfFamily(expenses', g) = rowsOfFamily(expenses, g)

\* C28: after any sequence of rule, expense-update, bulk-category and
\* import-confirm requests every stored transaction with a category and every
\* stored rule references a category of its own family, and no request of a
\* member of one family changes a rule, category or transaction of another.
C28_FamilyIsolation == []referencesOwnFamily /\ [][othersUntouched]_vars

\* Both families store a rule and one of them a transaction with a category
\* of its own, after requests of both.
C28_Witness ==
    /\ \A f \in Families : \E k \in DOMAIN rules : rules[k].familyId = f
    /\ \E k \in DOMAIN expenses : expenses[k].categoryId = CategoryId(expenses[k].familyId, 1)

====
